---- MODULE Spec2Model ----
(***************************************************************************)
(* State-machine model of the UVOL volumetric player (Player class):       *)
(* prefetch scheduler (fetchBuffers), adaptive texture target selection    *)
(* (adjustTextureTarget), wall/audio clock and presentation (processFrame).*)
(* Two classes share the frame-based scheduler: the one with the quality   *)
(* controller (src/unnamed/part_001, player = "ABR") and its predecessor   *)
(* (src/src/V2/player.ts, player = "V2"); definitions named ...V2 model    *)
(* the latter where it differs.                                            *)
(* Times are in milliseconds as returned by Date.now().                    *)
(***************************************************************************)
EXTENDS Integers, Sequences, FiniteSets, Bags, TLC

VARIABLES
  player,           \* the Player class in use: "ABR" (with quality controller) or "V2"
  now,              \* Date.now()
  trackData,        \* this.trackData (NoTrack = undefined)
  timeData,         \* this.timeData
  bufferDuration,   \* this.bufferDuration
  intervalDuration, \* this.intervalDuration
  audio,            \* the audio element: paused, ended, currentTime (ms)
  meshMap,          \* set of <<target, frameNo>>
  textureMap,       \* set of <<type, tag, target, frameNo>>
  timers,           \* live setInterval timers: set of [id, due, period]
  pending,          \* Promise.all batches of decode requests still in flight
  calls,            \* number of user play()/pause() calls made
  session,          \* number of playTrack calls made
  requests,         \* history: bag of decode requests issued in this session
  lastTick,         \* history: what fetchBuffers did, if the last step ran it
  lastFrame,        \* history: what processFrame did, if the last step ran it
  lastDecision,     \* history: what adjustTextureTarget decided in the last step
  clockBack,        \* history: the presentation time has moved backwards
  user,             \* history: what the user of the player did with pause()/play()
  starts,           \* history: number of times startVideo ran in this session
  ends,             \* history: number of onTrackEnd notifications, counted up to 2
  displayed         \* this.mesh: the geometry attached to it and what released it

vars == <<player, now, trackData, timeData, bufferDuration, intervalDuration, audio,
          meshMap, textureMap, timers, pending, calls, session, requests,
          lastTick, lastFrame, lastDecision, clockBack, user, starts, ends, displayed>>

----------------------------------------------------------------------------
(* Bounds of the model *)

StepMs == 500          \* granularity of the wall clock
T0 == 1000             \* Date.now() when the player is constructed
MaxStepsLong == 5      \* number of clock steps explored under SpecLong
MaxSteps == 6          \* number of clock steps explored
MaxStepsUser == 5      \* number of clock steps explored under SpecUser
MaxCalls == 3          \* number of pause() / play() calls under SpecUser
MaxStepsReplay == 2    \* number of clock steps explored under SpecReplay
MaxSessions == 2       \* number of playTrack calls under SpecReplay
MaxStepsAudio == 5     \* number of clock steps explored under SpecAudio
MaxStepsSteady == 5    \* number of clock steps explored under SpecSteady
MaxStepsLive == 2      \* number of clock steps before playback starts under SpecLive
MaxPauseLive == 500    \* longest time (ms) the user leaves the player paused under SpecLive
MaxStepsFormats == 3   \* number of clock steps explored under SpecFormats
MaxStepsFail == 4      \* number of clock steps explored under SpecFail
MaxStepsSegment == 6    \* number of clock steps explored under SpecSegment
MaxSessionsSegment == 2 \* number of playTrack calls under SpecSegment
MaxFails == 1          \* number of decode requests that fail under SpecFail

NoTrack == [undefined |-> TRUE]   \* this.trackData / this.timeData undefined
NoRecord == [none |-> TRUE]

\* the user history of a session in which pause() and play() were not called
NoUser == [paused |-> FALSE, pausedMs |-> 0, proper |-> TRUE, afterStart |-> TRUE,
           frozenAt |-> -1, resumed |-> FALSE]       \* a history variable before its first event
None == "none"                    \* an undefined string
NoKey == << >>                    \* no store key

\* this.mesh before any frame was displayed
NoMesh == [geometry |-> NoKey, releasedBy |-> "none"]

Min(a, b) == IF a <= b THEN a ELSE b

----------------------------------------------------------------------------
(* Manifests (inputs of playTrack) *)

GTarget(n, fr, fc, prio, ratio) ==
  [name |-> n, frameRate |-> fr, frameCount |-> fc, priority |-> prio,
   glb |-> TRUE, ratio |-> ratio]

TTarget(n, fr, fc, sup, prio, px) ==
  [name |-> n, frameRate |-> fr, frameCount |-> fc, supported |-> sup,
   priority |-> prio, pixels |-> px]

ManifestA ==
  [audio |-> [present |-> FALSE, playable |-> FALSE, duration |-> 0],
   geometry |-> << GTarget("g", 1, 4, 1, 1) >>,
   texture |-> << [type |-> "baseColor", tags |-> << >>,
                   targets |-> << TTarget("high", 2, 8, TRUE, 1, 4),
                                  TTarget("low", 1, 4, TRUE, 1, 1) >>] >>]

\* three baseColor targets, listed in the manifest out of quality order
ManifestC ==
  [audio |-> [present |-> FALSE, playable |-> FALSE, duration |-> 0],
   geometry |-> << GTarget("g", 1, 4, 1, 1) >>,
   texture |-> << [type |-> "baseColor", tags |-> << >>,
                   targets |-> << TTarget("mid", 1, 4, TRUE, 1, 2),
                                  TTarget("high", 2, 8, TRUE, 1, 4),
                                  TTarget("low", 1, 4, TRUE, 1, 1) >>] >>]

\* two texture types of different length, and a tagged baseColor input
ManifestB ==
  [audio |-> [present |-> FALSE, playable |-> FALSE, duration |-> 0],
   geometry |-> << GTarget("g", 1, 4, 1, 1) >>,
   texture |-> << [type |-> "baseColor", tags |-> << "cam1" >>,
                   targets |-> << TTarget("low", 1, 4, TRUE, 1, 1) >>],
                  [type |-> "normal", tags |-> << >>,
                   targets |-> << TTarget("low", 1, 3, TRUE, 1, 1) >>] >>]

\* a longer track with two texture types
ManifestL ==
  [audio |-> [present |-> FALSE, playable |-> FALSE, duration |-> 0],
   geometry |-> << GTarget("g", 1, 6, 1, 1) >>,
   texture |-> << [type |-> "baseColor", tags |-> << >>,
                   targets |-> << TTarget("low", 1, 6, TRUE, 1, 1) >>],
                  [type |-> "normal", tags |-> << >>,
                   targets |-> << TTarget("low", 1, 6, TRUE, 1, 1) >>] >>]

\* a track with audio in a format the browser plays, 2 s long
ManifestD ==
  [audio |-> [present |-> TRUE, playable |-> TRUE, duration |-> 2000],
   geometry |-> << GTarget("g", 1, 4, 1, 1) >>,
   texture |-> << [type |-> "baseColor", tags |-> << >>,
                   targets |-> << TTarget("low", 1, 4, TRUE, 1, 1) >>] >>]

\* a track that declares audio in formats the browser cannot play
ManifestE ==
  [audio |-> [present |-> TRUE, playable |-> FALSE, duration |-> 2000],
   geometry |-> << GTarget("g", 1, 4, 1, 1) >>,
   texture |-> << [type |-> "baseColor", tags |-> << >>,
                   targets |-> << TTarget("low", 1, 4, TRUE, 1, 1) >>] >>]

\* a track whose normal maps come only in a format the renderer does not support
ManifestF ==
  [audio |-> [present |-> FALSE, playable |-> FALSE, duration |-> 0],
   geometry |-> << GTarget("g", 1, 4, 1, 1) >>,
   texture |-> << [type |-> "baseColor", tags |-> << >>,
                   targets |-> << TTarget("low", 1, 4, TRUE, 1, 1) >>],
                  [type |-> "normal", tags |-> << >>,
                   targets |-> << TTarget("low", 1, 4, FALSE, 1, 1) >>] >>]

\* a track whose audio (4 s) outlasts its two geometry frames
ManifestG ==
  [audio |-> [present |-> TRUE, playable |-> TRUE, duration |-> 4000],
   geometry |-> << GTarget("g", 1, 2, 1, 1) >>,
   texture |-> << [type |-> "baseColor", tags |-> << >>,
                   targets |-> << TTarget("low", 1, 2, TRUE, 1, 1) >>] >>]

Manifests == [A |-> ManifestA, B |-> ManifestB, C |-> ManifestC, L |-> ManifestL,
              D |-> ManifestD, E |-> ManifestE, F |-> ManifestF, G |-> ManifestG]

\* the manifests played under SpecFormats
ManifestIdsFormats == {"A", "F"}

\* the manifests played under SpecAudio
ManifestIdsAudio == {"D", "E", "G"}

\* the manifests played under Spec
ManifestIds == {"A", "B"}

\* the manifests and samples (fetchTime / playTime) used under SpecABR
ManifestIdsABR == {"A", "C"}
Samples == {<<0, 1>>, <<1, 10>>, <<3, 10>>, <<2, 5>>, <<3, 5>>, <<4, 5>>}

BufferDurations == {1, 2}

\* the two Player classes with a frame-based scheduler
Players == {"ABR", "V2"}

IntervalDurations == {1}

----------------------------------------------------------------------------
(* Manifest lookups and the frame index mapper *)

Range(s) == {s[i] : i \in DOMAIN s}

GeometryTargetData(m, target) ==
  CHOOSE t \in Range(Manifests[m].geometry) : t.name = target

TextureTypeData(m, type) ==
  CHOOSE t \in Range(Manifests[m].texture) : t.type = type

TextureTargetData(m, type, target) ==
  CHOOSE t \in Range(TextureTypeData(m, type).targets) : t.name = target

\* Math.round(x) for x = a / b, b > 0: halves round towards +infinity
Round(a, b) == (2 * a + b) \div (2 * b)

\* Math.round(currentTime * frameRate), currentTime = ms / 1000
calculateGeometryFrame(m, target, ms) ==
  Round(ms * GeometryTargetData(m, target).frameRate, 1000)

calculateTextureFrame(m, type, target, ms) ==
  Round(ms * TextureTargetData(m, type, target).frameRate, 1000)

_GeometryFrameCount(m, target) == GeometryTargetData(m, target).frameCount

_TextureFrameCount(m, type, target) == TextureTargetData(m, type, target).frameCount

\* private currentGeometryFrame()
currentGeometryFrame(td, tm) ==
  calculateGeometryFrame(td.manifest, td.currentGeometryTarget, tm.currentTime)

\* private GeometryFrameCount()
GeometryFrameCount(td) == _GeometryFrameCount(td.manifest, td.currentGeometryTarget)

\* private currentTextureFrame(textureType)
currentTextureFrame(td, tm, textureType) ==
  calculateTextureFrame(td.manifest, textureType, td.currentTextureTarget[textureType],
                        tm.currentTime)

\* private TextureFrameCount(textureType = 'baseColor')
TextureFrameCount(td, textureType) ==
  _TextureFrameCount(td.manifest, textureType, td.currentTextureTarget[textureType])

\* V2/player.ts, private TextureFrameCount(textureType = 'baseColor'): reads
\* manifest.texture.baseColor.targets[currentTarget] for every texture type
TextureFrameCountV2(td, textureType) ==
  TextureTargetData(td.manifest, "baseColor",
                    td.currentTextureTarget[textureType]).frameCount

----------------------------------------------------------------------------
(* Target ordering computed by playTrack *)

\* comparator of geometryTargets.sort
GeometryCompare(a, b) ==
  IF a.priority # b.priority THEN b.priority - a.priority
  ELSE IF a.glb /\ b.glb /\ a.ratio # b.ratio THEN b.ratio - a.ratio
  ELSE a.frameRate - b.frameRate

\* comparator of supportedTargets.sort
TextureCompare(a, b) ==
  IF a.priority # b.priority THEN b.priority - a.priority
  ELSE a.pixels * a.frameRate - b.pixels * b.frameRate

Compare(kind, a, b) ==
  IF kind = "geometry" THEN GeometryCompare(a, b) ELSE TextureCompare(a, b)

\* insertion of x into the sorted sequence s, after its equals (stable)
SortInsert(kind, s, x) ==
  LET notAfter == {j \in 1..Len(s) : Compare(kind, s[j], x) <= 0}
      p == IF notAfter = {} THEN 0
           ELSE CHOOSE j \in notAfter : \A k \in notAfter : k <= j
  IN SubSeq(s, 1, p) \o <<x>> \o SubSeq(s, p + 1, Len(s))

RECURSIVE SortFrom(_, _, _, _)
SortFrom(kind, s, i, acc) ==
  IF i > Len(s) THEN acc
  ELSE SortFrom(kind, s, i + 1, SortInsert(kind, acc, s[i]))

\* Array.prototype.sort (stable) with the comparator of the given kind
Sort(kind, s) == SortFrom(kind, s, 1, << >>)

Names(s) == [i \in DOMAIN s |-> s[i].name]

RECURSIVE Filter(_, _)
Filter(s, keep) ==
  IF s = << >> THEN << >>
  ELSE IF keep[Head(s).name] THEN <<Head(s)>> \o Filter(Tail(s), keep)
  ELSE Filter(Tail(s), keep)

\* isTextureFormatSupported(renderer, format), per target of a type
SupportedTargets(m, type) ==
  LET all == TextureTypeData(m, type).targets
  IN Filter(all, [n \in {t.name : t \in Range(all)} |->
                    TextureTargetData(m, type, n).supported])

FirstOrNone(s) == IF Len(s) > 0 THEN s[1] ELSE None

IndexOf(s, x) ==
  IF \E i \in DOMAIN s : s[i] = x
  THEN (CHOOSE i \in DOMAIN s : s[i] = x /\ \A j \in DOMAIN s : s[j] = x => i <= j) - 1
  ELSE -1

----------------------------------------------------------------------------
(* Exact arithmetic on the statistics samples (fetchTime / playTime) *)

RECURSIVE GCD(_, _)
GCD(a, b) == IF b = 0 THEN a ELSE GCD(b, a % b)

LCM(a, b) == (a * b) \div GCD(a, b)

\* the number n / d (d > 0) in lowest terms
Rat(n, d) ==
  LET g == GCD(IF n < 0 THEN -n ELSE n, d)
  IN IF n = 0 THEN <<0, 1>> ELSE <<n \div g, d \div g>>

RECURSIVE CommonDen(_)
CommonDen(st) == IF st = << >> THEN 1 ELSE LCM(Head(st)[2], CommonDen(Tail(st)))

RECURSIVE SumNum(_, _)
SumNum(st, den) ==
  IF st = << >> THEN 0
  ELSE Head(st)[1] * (den \div Head(st)[2]) + SumNum(Tail(st), den)

\* stats.reduce((a, b) => a + b, 0) / stats.length  <=  p / q
MeanLeq(st, p, q) ==
  q * SumNum(st, CommonDen(st)) <= p * CommonDen(st) * Len(st)

\* p / q  <=  stats.reduce((a, b) => a + b, 0) / stats.length
MeanGeq(st, p, q) ==
  q * SumNum(st, CommonDen(st)) >= p * CommonDen(st) * Len(st)

----------------------------------------------------------------------------
(* Adaptive quality controller *)

\* "0 <= mean && mean <= 0.3"
InPromoteBand_Strict(st) == MeanGeq(st, 0, 1) /\ ~MeanGeq(st, 3, 10)
InPromoteBand(st) == MeanGeq(st, 0, 1) /\ MeanLeq(st, 3, 10)

\* "0.3 <= mean && mean <= 0.6"
InHoldBand(st) == MeanGeq(st, 3, 10) /\ MeanLeq(st, 6, 10)

\* the target one step up from index idx (0-based), if there is one
PromotedTarget_ToTop(targets, idx, current) == targets[Len(targets)]
PromotedTarget(targets, idx, current) ==
  IF idx < Len(targets) - 1 THEN targets[(idx + 1) + 1] ELSE current

\* the target one step down from index idx (0-based), if there is one
DemotedTarget(targets, idx, current) ==
  IF idx > 0 THEN targets[(idx - 1) + 1] ELSE current

\* "this.trackData.stats.length = 0" after the three branches
WindowAfterDecision_KeptOnHold(st, moved, current) ==
  IF moved = current THEN st ELSE << >>
WindowAfterDecision(st, moved, current) == << >>

adjustTextureTarget_ResetsMarks(td) ==
  IF Len(td.stats) < 3 THEN td
  ELSE
    LET targets == td.textureTargets["baseColor"]
        current == td.currentTextureTarget["baseColor"]
        currentTargetIndex == IndexOf(targets, current)
        moved ==
          IF InPromoteBand(td.stats)
          THEN PromotedTarget(targets, currentTargetIndex, current)
          ELSE IF InHoldBand(td.stats)
          THEN current
          ELSE DemotedTarget(targets, currentTargetIndex, current)
    IN [td EXCEPT !.currentTextureTarget["baseColor"] = moved,
                  !.lastRequestedTextureFrame["baseColor"] = [tt \in DOMAIN @ |-> -1],
                  !.stats = WindowAfterDecision(td.stats, moved, current)]

adjustTextureTarget(td) ==
  IF Len(td.stats) < 3 THEN td
  ELSE
    LET targets == td.textureTargets["baseColor"]
        current == td.currentTextureTarget["baseColor"]
        currentTargetIndex == IndexOf(targets, current)
        moved ==
          IF InPromoteBand(td.stats)
          THEN PromotedTarget(targets, currentTargetIndex, current)
          ELSE IF InHoldBand(td.stats)
          THEN current
          ELSE DemotedTarget(targets, currentTargetIndex, current)
    IN [td EXCEPT !.currentTextureTarget["baseColor"] = moved,
                  !.stats = WindowAfterDecision(td.stats, moved, current)]

\* history record of one call of adjustTextureTarget that acted on a window
Decision(td) ==
  LET targets == td.textureTargets["baseColor"]
  IN [window |-> td.stats,
      before |-> IndexOf(targets, td.currentTextureTarget["baseColor"]),
      after |-> IndexOf(targets, adjustTextureTarget(td).currentTextureTarget["baseColor"]),
      last |-> Len(targets) - 1]

----------------------------------------------------------------------------
(* Prefetch scheduler *)

FromTo(a, b) == IF b < a THEN << >> ELSE [j \in 1..(b - a + 1) |-> a + j - 1]

\* requestEnd of iteration i: Math.min(current + (i + 1) * fps, frameCount - 1)
RequestEnd_ShortHorizon(i, cur, fps, fc) == Min(cur + i * fps, fc - 1)
RequestEnd(i, cur, fps, fc) == Min(cur + (i + 1) * fps, fc - 1)

\* the condition under which an iteration issues requests
ShouldRequest_NotAtEnd(last, requestEnd, fc) == last # fc - 1
ShouldRequest(last, requestEnd, fc) == last # fc - 1 /\ last < requestEnd

\* the frames one iteration requests: last + 1 .. requestEnd, in order
RequestedFrames_FromMark(last, requestEnd) == FromTo(last, requestEnd)
RequestedFrames(last, requestEnd) == FromTo(last + 1, requestEnd)

\* the loop condition i < this.bufferDuration
LoopContinues_Inclusive(i, B) == i <= B
LoopContinues(i, B) == i < B

\* the loop "for (i = 0; i < bufferDuration; i++)" of fetchBuffers for one
\* stream: the final high-water mark and the frames requested, in order
RECURSIVE LeakyBucket(_, _, _, _, _, _)
LeakyBucket(i, B, last, cur, fps, fc) ==
  IF ~LoopContinues(i, B) THEN [last |-> last, frames |-> << >>]
  ELSE
    LET requestEnd == RequestEnd(i, cur, fps, fc)
        fire == ShouldRequest(last, requestEnd, fc)
        rest == LeakyBucket(i + 1, B, IF fire THEN requestEnd ELSE last, cur, fps, fc)
    IN [last |-> rest.last,
        frames |-> (IF fire THEN RequestedFrames(last, requestEnd) ELSE << >>)
                   \o rest.frames]

GeometryKey(target, f) == <<"geometry", "", target, f>>
TextureKey(type, tag, target, f) == <<type, tag, target, f>>

\* a texture type whose list of supported targets is empty has no current
\* target: reading its frame rate raises a TypeError before any request
FetchThrows(td) ==
  \E ty \in Range(td.textureTypes) : td.currentTextureTarget[ty] = None

\* the synchronous part of fetchBuffers
\* (frameCount[ty]: this.TextureFrameCount(ty) of the class)
FetchBuffersSync(td, tm, B, frameCount) ==
  LET m == td.manifest
      gTarget == td.currentGeometryTarget
      currentGFrame == currentGeometryFrame(td, tm)
      gFramesPerSecond == GeometryTargetData(m, gTarget).frameRate
      g == LeakyBucket(0, B, td.lastRequestedGeometryFrame[gTarget], currentGFrame,
                       gFramesPerSecond, GeometryFrameCount(td))
      types == Range(td.textureTypes)
      tTarget == [ty \in types |-> td.currentTextureTarget[ty]]
      currentTFrame == [ty \in types |-> currentTextureFrame(td, tm, ty)]
      t == [ty \in types |->
              LeakyBucket(0, B, td.lastRequestedTextureFrame[ty][tTarget[ty]],
                          currentTFrame[ty],
                          TextureTargetData(m, ty, tTarget[ty]).frameRate,
                          frameCount[ty])]
      gKeys == [j \in DOMAIN g.frames |-> GeometryKey(gTarget, g.frames[j])]
      tKeys == [ty \in types |->
                  [j \in DOMAIN t[ty].frames |->
                     TextureKey(ty, td.currentTextureTag[ty], tTarget[ty], t[ty].frames[j])]]
      keySet == Range(gKeys) \cup UNION {Range(tKeys[ty]) : ty \in types}
      Occurrences(sq, k) == Cardinality({j \in DOMAIN sq : sq[j] = k})
      count(k) == IF k[1] = "geometry" THEN Occurrences(gKeys, k)
                  ELSE Occurrences(tKeys[k[1]], k)
  IN [track |-> [td EXCEPT
                   !.lastRequestedGeometryFrame[gTarget] = g.last,
                   !.lastRequestedTextureFrame =
                      [ty \in DOMAIN @ |->
                         IF ty \in types THEN [@[ty] EXCEPT ![tTarget[ty]] = t[ty].last]
                         ELSE @[ty]]],
      promises |-> keySet,
      issued |-> [k \in keySet |-> count(k)],
      gTarget |-> gTarget,
      oldLastGeometryFrame |-> td.lastRequestedGeometryFrame[gTarget],
      gFramesPerSecond |-> gFramesPerSecond,
      currentGFrame |-> currentGFrame,
      tTarget |-> tTarget,
      currentTFrame |-> currentTFrame,
      beforeG |-> td.lastRequestedGeometryFrame,
      beforeT |-> td.lastRequestedTextureFrame]

----------------------------------------------------------------------------
(* Clock and audio element *)

\* HTMLMediaElement.play()
AudioPlay(au) ==
  [au EXCEPT !.paused = FALSE, !.ended = FALSE,
             !.currentTime = IF au.ended THEN 0 ELSE @]

\* HTMLMediaElement.pause()
AudioPause(au) == [au EXCEPT !.paused = TRUE]

Active == trackData # NoTrack

\* get paused()
Paused(td, tm, au) ==
  IF td = NoTrack \/ tm = NoTrack THEN TRUE
  ELSE IF td.hasAudio THEN au.paused
  ELSE tm.isClockPaused

\* startVideo: effect on timeData and on the audio element
StartVideoTime(td, tm, t) ==
  IF td.hasAudio THEN tm ELSE [tm EXCEPT !.startTime = t, !.isClockPaused = FALSE]

StartVideoAudio(td, au) == IF td.hasAudio THEN AudioPlay(au) ELSE au

----------------------------------------------------------------------------
(* Initial state: the player after construction, before any playTrack *)

Init ==
  /\ player \in Players
  /\ now = T0
  /\ trackData = NoTrack
  /\ timeData = NoTrack
  /\ bufferDuration = 4
  /\ intervalDuration = 2
  /\ audio = [paused |-> TRUE, ended |-> FALSE, currentTime |-> 0]
  /\ meshMap = {}
  /\ textureMap = {}
  /\ timers = {}
  /\ pending = {}
  /\ calls = 0
  /\ session = 0
  /\ requests = EmptyBag
  /\ lastTick = NoRecord
  /\ lastFrame = NoRecord
  /\ lastDecision = NoRecord
  /\ clockBack = FALSE
  /\ user = NoUser
  /\ starts = 0
  /\ ends = 0
  /\ displayed = NoMesh

----------------------------------------------------------------------------
(* Completion of a Promise.all batch: the "then" handler of fetchBuffers *)

\* statistics sample and target adjustment (lines of the handler before
\* the callback); td is this.trackData when the handler runs
ThenSampled(td, b) ==
  /\ b.gTarget \in DOMAIN td.lastRequestedGeometryFrame
  /\ td.lastRequestedGeometryFrame[b.gTarget] - b.oldLast > 0

ThenStats(td, b, t) ==
  LET fetchedFrames == td.lastRequestedGeometryFrame[b.gTarget] - b.oldLast
  IN [td EXCEPT !.stats = Append(@, Rat((t - b.start) * b.fps, 1000 * fetchedFrames))]

ThenTrack(td, b, t) ==
  IF ThenSampled(td, b) THEN adjustTextureTarget(ThenStats(td, b, t)) ELSE td

\* the whole handler: this.trackData, this.timeData, the audio element and
\* the history of decisions after it ran at time t on the state (td, tm, au);
\* "if (callback) callback()" runs startVideo for the batch of playTrack only
ThenHandler(td, tm, au, dec, b, t) ==
  [track |-> ThenTrack(td, b, t),
   time |-> IF b.cb THEN StartVideoTime(ThenTrack(td, b, t), tm, t) ELSE tm,
   audio |-> IF b.cb THEN StartVideoAudio(ThenTrack(td, b, t), au) ELSE au,
   started |-> b.cb,
   decision |-> IF ThenSampled(td, b) /\ Len(ThenStats(td, b, t).stats) >= 3
                THEN Decision(ThenStats(td, b, t))
                ELSE dec]

\* one call of fetchBuffers and its promises; own is the number of geometry
\* frames the call itself requested (recorded for the properties, the code
\* keeps no such value)
Batch(r, cb, t, ses) ==
  [start |-> t, gTarget |-> r.gTarget, oldLast |-> r.oldLastGeometryFrame,
   fps |-> r.gFramesPerSecond, cb |-> cb, reqs |-> r.promises, session |-> ses,
   failed |-> {}, own |-> Cardinality({k \in r.promises : k[1] = "geometry"})]

TickRecord(r, first) ==
  [first |-> first, gTarget |-> r.gTarget, currentGFrame |-> r.currentGFrame,
   tTarget |-> r.tTarget, currentTFrame |-> r.currentTFrame,
   promises |-> r.promises, beforeG |-> r.beforeG, beforeT |-> r.beforeT]

\* fetchBuffers(callback) called at time t in session ses with
\* this.trackData = td, this.timeData = tm: the state it leaves.
\* thrown: the TypeError of FetchThrows escaped to the caller.
FetchBuffers(td, tm, au, B, cb, t, ses, pend, reqs, tick, dec) ==
  IF FetchThrows(td)
  THEN [thrown |-> TRUE, track |-> td, time |-> tm, audio |-> au, pending |-> pend,
        requests |-> reqs, tick |-> tick, decision |-> dec, started |-> FALSE]
  ELSE
    LET r == FetchBuffersSync(td, tm, B, [ty \in Range(td.textureTypes) |->
                                            TextureFrameCount(td, ty)])
        h == ThenHandler(r.track, tm, au, dec, Batch(r, cb, t, ses), t)
    IN IF r.promises = {}
       THEN [thrown |-> FALSE, track |-> h.track, time |-> h.time, audio |-> h.audio,
             pending |-> pend, requests |-> reqs (+) r.issued,
             tick |-> TickRecord(r, cb), decision |-> h.decision,
             started |-> h.started]
       ELSE [thrown |-> FALSE, track |-> r.track, time |-> tm, audio |-> au,
             pending |-> pend \cup {Batch(r, cb, t, ses)},
             requests |-> reqs (+) r.issued,
             tick |-> TickRecord(r, cb), decision |-> dec, started |-> FALSE]

\* V2/player.ts: "if (callback) Promise.all(promises).then(callback)", the
\* handler of a batch; nothing is sampled and nothing is decided
ThenHandlerV2(td, tm, au, dec, b, t) ==
  [track |-> td,
   time |-> IF b.cb THEN StartVideoTime(td, tm, t) ELSE tm,
   audio |-> IF b.cb THEN StartVideoAudio(td, au) ELSE au,
   started |-> b.cb,
   decision |-> dec]

\* V2/player.ts: fetchBuffers(callback)
FetchBuffersV2(td, tm, au, B, cb, t, ses, pend, reqs, tick, dec) ==
  LET r == FetchBuffersSync(td, tm, B, [ty \in Range(td.textureTypes) |->
                                            TextureFrameCountV2(td, ty)])
      h == ThenHandlerV2(r.track, tm, au, dec, Batch(r, cb, t, ses), t)
  IN IF r.promises = {}
     THEN [thrown |-> FALSE, track |-> h.track, time |-> h.time, audio |-> h.audio,
           pending |-> pend, requests |-> reqs (+) r.issued,
           tick |-> TickRecord(r, cb), decision |-> dec, started |-> h.started]
     ELSE [thrown |-> FALSE, track |-> r.track, time |-> tm, audio |-> au,
           pending |-> pend \cup {Batch(r, cb, t, ses)},
           requests |-> reqs (+) r.issued,
           tick |-> TickRecord(r, cb), decision |-> dec, started |-> FALSE]

----------------------------------------------------------------------------
(* Operations *)

NewTrackData(m) ==
  LET geometryTargets == Names(Sort("geometry", Manifests[m].geometry))
      textureTypes == [i \in DOMAIN Manifests[m].texture |-> Manifests[m].texture[i].type]
      types == Range(textureTypes)
      textureTargets == [ty \in types |-> Names(Sort("texture", SupportedTargets(m, ty)))]
      textureTags == [ty \in types |->
                        IF TextureTypeData(m, ty).tags = << >> THEN <<"default">>
                        ELSE TextureTypeData(m, ty).tags]
  IN [manifest |-> m,
      hasAudio |-> Manifests[m].audio.present,
      lastRequestedGeometryFrame |-> [g \in Range(geometryTargets) |-> -1],
      lastRequestedTextureFrame |->
         [ty \in types |-> [tt \in Range(textureTargets[ty]) |-> -1]],
      geometryTargets |-> geometryTargets,
      textureTargets |-> textureTargets,
      textureTags |-> textureTags,
      textureTypes |-> textureTypes,
      currentGeometryTarget |-> geometryTargets[1],
      boundingBox |-> 0,
      currentTextureTarget |-> [ty \in types |-> FirstOrNone(textureTargets[ty])],
      currentTextureTag |-> [ty \in types |-> textureTags[ty][1]],
      intervalId |-> -1,
      stats |-> << >>]

\* V2/player.ts: Array.prototype.reduce without initial value
\* V2/player.ts: the reducer that chooses the geometry target
GeometryPick(prev, curr) == IF prev.frameRate < curr.frameRate THEN prev ELSE curr

\* V2/player.ts: the reducer that chooses a texture target; both resolutions
\* are read from prev, so the pixel counts never differ
TexturePick(prev, curr) ==
  IF ~prev.supported /\ ~curr.supported THEN prev
  ELSE IF prev.supported /\ ~curr.supported THEN prev
  ELSE IF ~prev.supported /\ curr.supported THEN curr
  ELSE IF prev.frameRate < curr.frameRate THEN prev
  ELSE IF prev.frameRate > curr.frameRate THEN curr
  ELSE IF prev.priority >= curr.priority THEN prev
  ELSE curr

Pick(kind, prev, curr) ==
  IF kind = "geometry" THEN GeometryPick(prev, curr) ELSE TexturePick(prev, curr)

\* V2/player.ts: Array.prototype.reduce without initial value
RECURSIVE ReduceFrom(_, _, _, _)
ReduceFrom(kind, seq, i, acc) ==
  IF i > Len(seq) THEN acc ELSE ReduceFrom(kind, seq, i + 1, Pick(kind, acc, seq[i]))

Reduce(kind, seq) == ReduceFrom(kind, seq, 2, seq[1])

\* V2/player.ts: the trackData that playTrack builds
NewTrackDataV2(m) ==
  LET geometryTargets == Names(Manifests[m].geometry)
      textureTypes == [i \in DOMAIN Manifests[m].texture |-> Manifests[m].texture[i].type]
      types == Range(textureTypes)
      textureTargets == [ty \in types |-> Names(TextureTypeData(m, ty).targets)]
      textureTags == [ty \in types |->
                        IF TextureTypeData(m, ty).tags = << >> THEN <<"default">>
                        ELSE TextureTypeData(m, ty).tags]
  IN [manifest |-> m,
      hasAudio |-> Manifests[m].audio.present,
      lastRequestedGeometryFrame |-> [g \in Range(geometryTargets) |-> -1],
      lastRequestedTextureFrame |->
         [ty \in types |-> [tt \in Range(textureTargets[ty]) |-> -1]],
      geometryTargets |-> geometryTargets,
      textureTargets |-> textureTargets,
      textureTags |-> textureTags,
      textureTypes |-> textureTypes,
      currentGeometryTarget |-> Reduce("geometry", Manifests[m].geometry).name,
      boundingBox |-> 0,
      currentTextureTarget |->
         [ty \in types |-> Reduce("texture", TextureTypeData(m, ty).targets).name],
      currentTextureTag |-> [ty \in types |-> textureTags[ty][1]],
      intervalId |-> -1]

NewTimeData ==
  [currentTime |-> 0, startTime |-> -1, pausedTime |-> 0,
   totalPausedDuration |-> 0, isClockPaused |-> TRUE]

\* "if (this.trackData.hasAudio)" of playTrack: a format the audio element
\* can play is found, or hasAudio is cleared
AudioPlayable(m) == Manifests[m].audio.present /\ Manifests[m].audio.playable

PlayableTrack_KeepsAudio(td) == td

PlayableTrack(td) == [td EXCEPT !.hasAudio = AudioPlayable(td.manifest)]

\* the audio element after "this.audio.src = ..."
LoadedAudio(m) ==
  IF AudioPlayable(m) THEN [paused |-> TRUE, ended |-> FALSE, currentTime |-> 0]
  ELSE audio

\* the end of playTrack: the durations, the state f that the first
\* fetchBuffers(this.startVideo) left, and setInterval
PlayTrackWith(f, B, I) ==
  /\ session' = session + 1
  /\ bufferDuration' = B
  /\ intervalDuration' = I
  /\ trackData' = IF f.thrown THEN f.track
                  ELSE [f.track EXCEPT !.intervalId = session + 1]
  /\ timers' = IF f.thrown THEN timers
               ELSE timers \cup {[id |-> session + 1, due |-> now + I * 1000,
                                  period |-> I * 1000]}
  /\ timeData' = f.time
  /\ audio' = f.audio
  /\ pending' = f.pending
  /\ requests' = f.requests
  /\ lastTick' = f.tick
  /\ lastDecision' = f.decision
  /\ lastFrame' = NoRecord
  /\ clockBack' = FALSE
  /\ user' = NoUser
  /\ starts' = IF f.started THEN 1 ELSE 0
  /\ ends' = 0
  /\ UNCHANGED <<player, now, meshMap, textureMap, calls, displayed>>

\* playTrack(_manifest, _manifestFilePath, _bufferDuration, _intervalDuration)
PlayTrack(m, B, I) ==
  /\ player = "ABR"
  /\ PlayTrackWith(FetchBuffers(PlayableTrack(NewTrackData(m)), NewTimeData,
                                LoadedAudio(m), B, TRUE, now, session + 1,
                                pending, EmptyBag, NoRecord, NoRecord), B, I)

\* V2/player.ts: playTrack
PlayTrackV2(m, B, I) ==
  /\ player = "V2"
  /\ PlayTrackWith(FetchBuffersV2(PlayableTrack(NewTrackDataV2(m)), NewTimeData,
                                  LoadedAudio(m), B, TRUE, now, session + 1,
                                  pending, EmptyBag, NoRecord, NoRecord), B, I)

\* a setInterval timer fires and fetchBuffers() ran without callback,
\* leaving f
TimerTickWith(tmr, f) ==
  /\ tmr \in timers
  /\ tmr.due <= now
  /\ timers' = (timers \ {tmr}) \cup {[tmr EXCEPT !.due = @ + tmr.period]}
  /\ trackData' = f.track
  /\ timeData' = f.time
  /\ audio' = f.audio
  /\ pending' = f.pending
  /\ requests' = f.requests
  /\ lastTick' = f.tick
  /\ lastDecision' = f.decision
  /\ lastFrame' = NoRecord
  /\ starts' = IF f.started THEN starts + 1 ELSE starts
  /\ UNCHANGED <<player, now, bufferDuration, intervalDuration, meshMap, textureMap,
                 calls, session, clockBack, user, ends, displayed>>

\* setInterval(this.fetchBuffers, this.intervalDuration * 1000)
TimerTick(tmr) ==
  /\ player = "ABR"
  /\ TimerTickWith(tmr, FetchBuffers(trackData, timeData, audio, bufferDuration,
                                     FALSE, now, session, pending, requests,
                                     NoRecord, NoRecord))

\* V2/player.ts: setInterval(this.fetchBuffers, this.intervalDuration * 1000)
TimerTickV2(tmr) ==
  /\ player = "V2"
  /\ TimerTickWith(tmr, FetchBuffersV2(trackData, timeData, audio, bufferDuration,
                                       FALSE, now, session, pending, requests,
                                       NoRecord, NoRecord))

\* the track after a decoded geometry of batch b has set the bounding box
BoundedTrack(b, k) ==
  IF k[1] = "geometry" /\ trackData.boundingBox = 0
  THEN [trackData EXCEPT !.boundingBox = b.session]
  ELSE trackData

\* a decode of batch b resolves: the frame enters its store, and the
\* batch's handler (leaving h) runs when it was the last one
DecodeDoneWith(b, k, h) ==
  LET isGeometry == k[1] = "geometry"
      rest == [b EXCEPT !.reqs = @ \ {k}]
  IN /\ b \in pending
     /\ k \in b.reqs
     /\ meshMap' = IF isGeometry THEN meshMap \cup {<<k[3], k[4]>>} ELSE meshMap
     /\ textureMap' = IF isGeometry THEN textureMap ELSE textureMap \cup {k}
     /\ IF rest.reqs = {} /\ b.failed = {}
        THEN /\ pending' = pending \ {b}
             /\ trackData' = h.track
             /\ timeData' = h.time
             /\ audio' = h.audio
             /\ lastDecision' = h.decision
             /\ starts' = IF h.started THEN starts + 1 ELSE starts
        ELSE /\ pending' = (pending \ {b}) \cup {rest}
             /\ trackData' = BoundedTrack(b, k)
             /\ lastDecision' = NoRecord
             /\ UNCHANGED <<timeData, audio, starts>>
     /\ lastTick' = NoRecord
     /\ lastFrame' = NoRecord
     /\ UNCHANGED <<player, now, bufferDuration, intervalDuration, timers, calls, user, ends, displayed,
                    session, requests, clockBack>>

\* the outcomes of utils.decodeGeometry / utils.decodeTexture that settle the
\* promise (a decode that never settles is a request that stays pending)
DecodeOutcomes == {"resolves", "rejects"}

\* a decode of batch b rejects: fetchGeometry / fetchTexture have no try/catch
\* and reject too, nothing is inserted; Promise.all(promises) rejects and its
\* then-handler, which has no rejection handler, never runs. The batch stays
\* in pending with the failed key: the rejection nobody handles.
DecodeFail(b, k) ==
  /\ player = "ABR"
  /\ "rejects" \in DecodeOutcomes
  /\ b \in pending
  /\ k \in b.reqs
  /\ pending' = (pending \ {b}) \cup {[b EXCEPT !.reqs = @ \ {k},
                                                !.failed = @ \cup {k}]}
  /\ lastTick' = NoRecord
  /\ lastFrame' = NoRecord
  /\ lastDecision' = NoRecord
  /\ UNCHANGED <<player, now, trackData, timeData, bufferDuration, intervalDuration,
                 audio, meshMap, textureMap, timers, calls, session, requests,
                 clockBack, user, starts, ends, displayed>>

\* fetchGeometry / fetchTexture continue after their await
DecodeDone(b, k) ==
  /\ player = "ABR"
  /\ DecodeDoneWith(b, k, ThenHandler(BoundedTrack(b, k), timeData, audio,
                                      NoRecord, b, now))

\* V2/player.ts: the load callback of decodeDraco / decodeKTX2 / decodeASTC
DecodeDoneV2(b, k) ==
  /\ player = "V2"
  /\ DecodeDoneWith(b, k, ThenHandlerV2(BoundedTrack(b, k), timeData, audio,
                                        NoRecord, b, now))

\* pause() on the wall clock: stamps pausedTime whether or not the clock is
\* already paused
PauseClock(tm, t) == [tm EXCEPT !.isClockPaused = TRUE, !.pausedTime = t]

\* play() on the wall clock: adds the time since pausedTime to the paused total
PlayClock_NoTotal(tm, t) ==
  IF tm.isClockPaused THEN [tm EXCEPT !.isClockPaused = FALSE] ELSE tm

PlayClock(tm, t) ==
  IF tm.isClockPaused
  THEN [tm EXCEPT !.totalPausedDuration = @ + (t - tm.pausedTime),
                  !.isClockPaused = FALSE]
  ELSE tm

\* the presentation time (ms) processFrame computes on the wall clock
WallClockMs_Stopped(tm, t) == tm.currentTime
WallClockMs(tm, t) == t - tm.startTime - tm.totalPausedDuration

\* startVideo has run in wall-clock mode
Started == Active /\ ~trackData.hasAudio /\ timeData.startTime # -1

\* pause()
Pause ==
  /\ trackData # NoTrack
  /\ calls' = calls + 1
  /\ IF trackData.hasAudio
     THEN /\ audio' = AudioPause(audio)
          /\ UNCHANGED timeData
     ELSE /\ timeData' = PauseClock(timeData, now)
          /\ UNCHANGED audio
  /\ user' = [user EXCEPT
                !.paused = TRUE,
                !.proper = @ /\ Started /\ ~user.paused,
                !.afterStart = @ /\ Started,
                !.frozenAt = IF user.paused \/ ~Started THEN @
                             ELSE WallClockMs(timeData, now),
                !.resumed = FALSE]
  /\ lastTick' = NoRecord
  /\ lastFrame' = NoRecord
  /\ lastDecision' = NoRecord
  /\ UNCHANGED <<player, now, trackData, bufferDuration, intervalDuration, meshMap,
                 textureMap, timers, pending, session, requests, clockBack, starts, ends, displayed>>

\* play()
Play ==
  /\ trackData # NoTrack
  /\ calls' = calls + 1
  /\ IF trackData.hasAudio
     THEN /\ audio' = AudioPlay(audio)
          /\ UNCHANGED timeData
     ELSE /\ timeData' = PlayClock(timeData, now)
          /\ UNCHANGED audio
  /\ user' = [user EXCEPT
                !.paused = FALSE,
                !.proper = @ /\ Started /\ user.paused,
                !.afterStart = @ /\ Started,
                !.resumed = user.paused]
  /\ lastTick' = NoRecord
  /\ lastFrame' = NoRecord
  /\ lastDecision' = NoRecord
  /\ UNCHANGED <<player, now, trackData, bufferDuration, intervalDuration, meshMap,
                 textureMap, timers, pending, session, requests, clockBack, starts, ends, displayed>>

\* the keys processFrame hands to removePlayed*Buffer: the frame before the
\* playhead frame of the active target (and tag)
PlayedGeometryKey_Current(target, frameNo) ==
  <<target, frameNo>>
PlayedGeometryKey(target, frameNo) ==
  <<target, frameNo - 1>>

PlayedTextureKey(tag, target, frameNo) ==
  <<"baseColor", tag, target, frameNo - 1>>

\* removePlayedGeometryBuffer / removePlayedTextureBuffer: the store without key
removePlayedGeometryBuffer(store, key) ==
  IF key \in store THEN store \ {key} ELSE store

removePlayedTextureBuffer(store, key) ==
  IF key \in store THEN store \ {key} ELSE store

\* the fallback search of processFrame: the first target of baseColor, in
\* textureTargets order, that has a frame under tag "default" at its own
\* frame number for time ms; NoKey when there is none
FallbackTexture_ActiveFrame(td, store, ms) ==
  LET targets == td.textureTargets["baseColor"]
      key(i) == <<"baseColor", "default", targets[i],
                  calculateTextureFrame(td.manifest, "baseColor",
                                        td.currentTextureTarget["baseColor"], ms)>>
      hits == {i \in DOMAIN targets : key(i) \in store}
  IN IF hits = {} THEN NoKey
     ELSE key(CHOOSE i \in hits : \A j \in hits : i <= j)

FallbackTexture(td, store, ms) ==
  LET targets == td.textureTargets["baseColor"]
      key(i) == <<"baseColor", "default", targets[i],
                  calculateTextureFrame(td.manifest, "baseColor", targets[i], ms)>>
      hits == {i \in DOMAIN targets : key(i) \in store}
  IN IF hits = {} THEN NoKey
     ELSE key(CHOOSE i \in hits : \A j \in hits : i <= j)

FrameRecord(outcome, ms, td, g, t, evicted, texture) ==
  [outcome |-> outcome, time |-> ms, gTarget |-> td.currentGeometryTarget,
   gFrame |-> g, tTarget |-> td.currentTextureTarget["baseColor"],
   tTag |-> td.currentTextureTag["baseColor"], tFrame |-> t,
   evicted |-> evicted, texture |-> texture]

\* the argument of this.onMeshBuffering?.(0) in the paused branch of
\* processFrame, as a fraction <<numerator, denominator>>
MeshBuffering(mesh, td, B) == <<0, 1>>

\* clearInterval(id): the timer with that id fires no more
clearInterval_Ignored(tmrs, id) == tmrs

clearInterval(tmrs, id) == {tmr \in tmrs : tmr.id # id}

\* buffer.dispose() on the store entries gone: the attached geometry is
\* released when it is one of them (by: "eviction" or "teardown")
Released(m, gone, by) ==
  IF m.geometry \in gone /\ m.releasedBy = "none" THEN [m EXCEPT !.releasedBy = by]
  ELSE m

\* updateGeometry(this.mesh, this.meshMap.get(key)): the store's object is
\* attached to the mesh
updateGeometry(m, key) == [geometry |-> key, releasedBy |-> "none"]

HasGeometry_AnyFrame(mesh, target, frame) == \E x \in mesh : x[1] = target

\* this.meshMap.has([this.trackData.currentGeometryTarget, currentGeometryFrame])
HasGeometry(mesh, target, frame) == <<target, frame>> \in mesh

\* processFrame; searches: the class has the fallback search (V2/player.ts
\* applies the failure material at once)
ProcessFrameWith(searches) ==
  /\ trackData # NoTrack
  /\ lastTick' = NoRecord
  /\ lastDecision' = NoRecord
  /\ UNCHANGED <<player, now, bufferDuration, intervalDuration, audio, pending, calls, user,
                 session, requests, trackData, starts>>
  /\ IF Paused(trackData, timeData, audio)
     THEN /\ lastFrame' = FrameRecord("buffering", timeData.currentTime, trackData,
                                      -1, -1, {}, NoKey)
                          @@ [progress |-> MeshBuffering(meshMap, trackData,
                                                         bufferDuration)]
          /\ UNCHANGED <<timeData, meshMap, textureMap, timers, clockBack, ends, displayed>>
     ELSE IF trackData.hasAudio /\ audio.ended
     THEN /\ timers' = clearInterval(timers, trackData.intervalId)
          /\ meshMap' = {}
          /\ textureMap' = {}
          /\ lastFrame' = FrameRecord("ended", timeData.currentTime, trackData,
                                      -1, -1, {}, NoKey)
          /\ ends' = Min(ends + 1, 2)
          /\ displayed' = Released(displayed, meshMap, "teardown")
          /\ UNCHANGED <<timeData, clockBack>>
     ELSE
       LET td == trackData
           ms == IF td.hasAudio THEN audio.currentTime
                 ELSE WallClockMs(timeData, now)
           gTarget == td.currentGeometryTarget
           textureTarget == td.currentTextureTarget["baseColor"]
           textureTag == td.currentTextureTag["baseColor"]
           tm1 == [timeData EXCEPT !.currentTime = ms]
           gFrame == currentGeometryFrame(td, tm1)
           tFrame == currentTextureFrame(td, tm1, "baseColor")
           gOld == PlayedGeometryKey(gTarget, gFrame)
           tOld == PlayedTextureKey(textureTag, textureTarget, tFrame)
           mesh1 == removePlayedGeometryBuffer(meshMap, gOld)
           tex1 == removePlayedTextureBuffer(textureMap, tOld)
           evicted == {GeometryKey(x[1], x[2]) : x \in meshMap \ mesh1}
                      \cup (textureMap \ tex1)
           tKey == <<"baseColor", textureTag, textureTarget, tFrame>>
           fallback == IF searches THEN FallbackTexture(td, tex1, ms) ELSE NoKey
       IN /\ clockBack' = (clockBack \/ ms < timeData.currentTime)
          /\ IF textureTarget = None
             THEN \* calculateTextureFrame on an undefined target raises
                  /\ timeData' = [timeData EXCEPT !.currentTime = ms]
                  /\ lastFrame' = [outcome |-> "error", time |-> ms]
                  /\ UNCHANGED <<meshMap, textureMap, timers, ends, displayed>>
             ELSE IF gFrame >= GeometryFrameCount(td) - 1
             THEN /\ timers' = clearInterval(timers, td.intervalId)
                  /\ meshMap' = {}
                  /\ textureMap' = {}
                  /\ timeData' = [timeData EXCEPT !.currentTime = ms,
                                                  !.isClockPaused = TRUE]
                  /\ lastFrame' = FrameRecord("ended", ms, td, gFrame,
                                              tFrame, evicted, NoKey)
                  /\ ends' = Min(ends + 1, 2)
                  /\ displayed' = Released(Released(displayed, meshMap \ mesh1, "eviction"),
                                           mesh1, "teardown")
             ELSE /\ timeData' = [timeData EXCEPT !.currentTime = ms]
                  /\ meshMap' = mesh1
                  /\ textureMap' = tex1
                  /\ UNCHANGED <<timers, ends>>
                  /\ displayed' =
                       IF HasGeometry(mesh1, gTarget, gFrame)
                       THEN updateGeometry(Released(displayed, meshMap \ mesh1, "eviction"),
                                           <<gTarget, gFrame>>)
                       ELSE Released(displayed, meshMap \ mesh1, "eviction")
                  /\ lastFrame' =
                       IF ~HasGeometry(mesh1, gTarget, gFrame)
                       THEN FrameRecord("skipped", ms, td, gFrame,
                                        tFrame, evicted, NoKey)
                       ELSE IF tKey \notin tex1
                       THEN FrameRecord("shown", ms, td, gFrame,
                                        tFrame, evicted,
                                        IF fallback = NoKey THEN <<"failMaterial">>
                                        ELSE fallback)
                       ELSE FrameRecord("shown", ms, td, gFrame,
                                        tFrame, evicted, tKey)

\* update() -> processFrame()
ProcessFrame == player = "ABR" /\ ProcessFrameWith(TRUE)

\* V2/player.ts: update() -> processFrame()
ProcessFrameV2 == player = "V2" /\ ProcessFrameWith(FALSE)

\* the wall clock advances by one step; timers that are due fire first
AdvanceTimeWithin(steps) ==
  /\ now < T0 + steps * StepMs
  /\ \A tmr \in timers : tmr.due > now
  /\ now' = now + StepMs
  /\ IF trackData # NoTrack /\ trackData.hasAudio /\ ~audio.paused /\ ~audio.ended
     THEN LET d == Manifests[trackData.manifest].audio.duration
              c == Min(audio.currentTime + StepMs, d)
          IN \E p \in IF c = d THEN BOOLEAN ELSE {FALSE} :
               audio' = [paused |-> p, ended |-> (c = d), currentTime |-> c]
     ELSE UNCHANGED audio
  /\ lastTick' = NoRecord
  /\ lastFrame' = NoRecord
  /\ lastDecision' = NoRecord
  /\ user' = [user EXCEPT !.pausedMs = IF user.paused THEN @ + StepMs ELSE @,
                           !.resumed = FALSE]
  /\ UNCHANGED <<player, trackData, timeData, bufferDuration, intervalDuration,
                 meshMap, textureMap, timers, pending, calls, session, requests, clockBack,
                 starts, ends, displayed>>

AdvanceTime == AdvanceTimeWithin(MaxSteps)

Next ==
  \/ trackData = NoTrack /\ \E m \in ManifestIds, B \in BufferDurations,
                               I \in IntervalDurations : PlayTrack(m, B, I)
  \/ trackData = NoTrack /\ \E m \in ManifestIds, B \in BufferDurations,
                               I \in IntervalDurations : PlayTrackV2(m, B, I)
  \/ \E tmr \in timers : TimerTick(tmr)
  \/ \E tmr \in timers : TimerTickV2(tmr)
  \/ \E b \in pending : \E k \in b.reqs : DecodeDone(b, k)
  \/ \E b \in pending : \E k \in b.reqs : DecodeDoneV2(b, k)
  \/ ProcessFrame
  \/ ProcessFrameV2
  \/ AdvanceTime

\* one track session that plays by itself (no user play() / pause())
Spec == Init /\ [][Next]_vars

\* the statistics lines of the then-handler, "stats.push(fetchTime / playTime);
\* adjustTextureTarget()", with the sample as an input
SampleAndAdjust(sample) ==
  LET td == [trackData EXCEPT !.stats = Append(@, sample)]
  IN /\ Active
     /\ trackData' = adjustTextureTarget(td)
     /\ lastDecision' = IF Len(td.stats) >= 3 THEN Decision(td) ELSE NoRecord
     /\ lastTick' = NoRecord
     /\ lastFrame' = NoRecord
     /\ UNCHANGED <<player, now, timeData, bufferDuration, intervalDuration, audio, meshMap,
                    textureMap, timers, pending, calls, session, requests, clockBack, user,
                    starts, ends, displayed>>

AdvanceTimeLong == AdvanceTimeWithin(MaxStepsLong)

NextLong ==
  \/ trackData = NoTrack /\ PlayTrack("L", 1, 1)
  \/ \E tmr \in timers : TimerTick(tmr)
  \/ \E b \in pending : \E k \in b.reqs : DecodeDone(b, k)
  \/ ProcessFrame
  \/ AdvanceTimeLong

\* the first seconds of one session of the longer track
SpecLong == Init /\ [][NextLong]_vars

NextABR ==
  \/ trackData = NoTrack /\ \E m \in ManifestIdsABR : PlayTrack(m, 4, 2)
  \/ \E sample \in Samples : SampleAndAdjust(sample)

\* the quality controller driven by arbitrary windows of samples
SpecABR == Init /\ [][NextABR]_vars

AdvanceTimeUser == AdvanceTimeWithin(MaxStepsUser)

\* the scheduler period of SpecUser (s): longer than the time explored, so that
\* the only scheduling pass is the first one
IntervalUser == 10

\* under SpecUser, SpecReplay and SpecAudio the requests of a batch complete in
\* one fixed order
NextToComplete(b) == CHOOSE k \in b.reqs : TRUE

NextUser ==
  \/ trackData = NoTrack /\ PlayTrack("E", 1, IntervalUser)
  \/ trackData = NoTrack /\ PlayTrackV2("E", 1, IntervalUser)
  \/ \E b \in pending : DecodeDone(b, NextToComplete(b))
  \/ \E b \in pending : DecodeDoneV2(b, NextToComplete(b))
  \/ ProcessFrame
  \/ ProcessFrameV2
  \/ calls < MaxCalls /\ Pause
  \/ calls < MaxCalls /\ Play
  \/ AdvanceTimeUser

\* one session on the wall clock (the audio of the track is not playable) in
\* which the user calls pause() and play() at any moment
SpecUser == Init /\ [][NextUser]_vars

AdvanceTimeReplay == AdvanceTimeWithin(MaxStepsReplay)

NextReplay ==
  \/ session < MaxSessions /\ player = "ABR" /\ PlayTrack("A", 1, 1)
  \/ \E tmr \in timers : TimerTick(tmr)
  \/ \E b \in pending : DecodeDone(b, NextToComplete(b))
  \/ AdvanceTimeReplay

\* playTrack called again at any moment, also while a session is active
SpecReplay == Init /\ [][NextReplay]_vars

AdvanceTimeFail == AdvanceTimeWithin(MaxStepsFail)

\* the decode requests that have failed
FailedKeys == UNION {b.failed : b \in pending}

NextFail ==
  \/ trackData = NoTrack /\ player = "ABR" /\ PlayTrack("A", 1, 1)
  \/ \E tmr \in timers : TimerTick(tmr)
  \/ \E b \in pending : \E k \in b.reqs : DecodeDone(b, k)
  \/ Cardinality(FailedKeys) < MaxFails /\ \E b \in pending : \E k \in b.reqs : DecodeFail(b, k)
  \/ ProcessFrame
  \/ AdvanceTimeFail

\* one session in which decode requests may fail
SpecFail == Init /\ [][NextFail]_vars

AdvanceTimeFormats == AdvanceTimeWithin(MaxStepsFormats)

NextFormats ==
  \/ trackData = NoTrack /\ player = "ABR" /\ \E m \in ManifestIdsFormats : PlayTrack(m, 1, 1)
  \/ \E tmr \in timers : TimerTick(tmr)
  \/ \E b \in pending : \E k \in b.reqs : DecodeDone(b, k)
  \/ ProcessFrame
  \/ AdvanceTimeFormats

\* one session of a track with or without a texture type the renderer cannot show
SpecFormats == Init /\ [][NextFormats]_vars

AdvanceTimeAudio == AdvanceTimeWithin(MaxStepsAudio)

NextAudio ==
  \/ trackData = NoTrack /\ \E m \in ManifestIdsAudio : PlayTrack(m, 1, 1)
  \/ trackData = NoTrack /\ \E m \in ManifestIdsAudio : PlayTrackV2(m, 1, 1)
  \/ \E tmr \in timers : TimerTick(tmr)
  \/ \E tmr \in timers : TimerTickV2(tmr)
  \/ \E b \in pending : DecodeDone(b, NextToComplete(b))
  \/ \E b \in pending : DecodeDoneV2(b, NextToComplete(b))
  \/ ProcessFrame
  \/ ProcessFrameV2
  \/ AdvanceTimeAudio

\* one session of a track that declares audio, playable or not
SpecAudio == Init /\ [][NextAudio]_vars

----------------------------------------------------------------------------
(* Properties *)

GeometryTargets == DOMAIN trackData.lastRequestedGeometryFrame
TextureTypes == DOMAIN trackData.lastRequestedTextureFrame
TextureTargets(ty) == DOMAIN trackData.lastRequestedTextureFrame[ty]

GeometryMark(g) == trackData.lastRequestedGeometryFrame[g]
GeometryLastFrame(g) == GeometryTargetData(trackData.manifest, g).frameCount - 1
TextureLastFrame(ty, tt) == TextureTargetData(trackData.manifest, ty, tt).frameCount - 1
TextureMark(ty, tt) == trackData.lastRequestedTextureFrame[ty][tt]

Ticked == lastTick # NoRecord

\* the frame numbers a tick requested for a stream and target
TickFrames(kind, target) ==
  {k[4] : k \in {q \in lastTick.promises : q[1] = kind /\ q[3] = target}}

MarksWithinTrack ==
  Active =>
    /\ \A g \in GeometryTargets :
         GeometryMark(g) >= -1
         /\ GeometryMark(g) <= GeometryLastFrame(g)
    /\ \A ty \in TextureTypes : \A tt \in TextureTargets(ty) :
         TextureMark(ty, tt) >= -1
         /\ TextureMark(ty, tt) <= TextureLastFrame(ty, tt)

MarksStartAtMinusOne ==
  (Ticked /\ lastTick.first) =>
    /\ \A g \in DOMAIN lastTick.beforeG : lastTick.beforeG[g] = -1
    /\ \A ty \in DOMAIN lastTick.beforeT :
         \A tt \in DOMAIN lastTick.beforeT[ty] : lastTick.beforeT[ty][tt] = -1

MarksNeverDecrease ==
  (Active /\ session' = session) =>
    /\ \A g \in GeometryTargets :
         trackData'.lastRequestedGeometryFrame[g] >= GeometryMark(g)
    /\ \A ty \in TextureTypes : \A tt \in TextureTargets(ty) :
         trackData'.lastRequestedTextureFrame[ty][tt] >= TextureMark(ty, tt)

\* C1: every high-water mark (geometry target, and texture type and target)
\* is -1 when playTrack runs its first pass, never decreases during the
\* session, and stays within -1 .. frameCount - 1 of its target.
C1_HighWaterMark ==
  /\ [](MarksWithinTrack /\ MarksStartAtMinusOne)
  /\ [][MarksNeverDecrease]_vars

\* C2 as stated: per stream (geometry, texture type) and frame number, at
\* most one decode request is issued in a session.
C2_OncePerStreamFrame ==
  \A k1 \in DOMAIN requests : \A k2 \in DOMAIN requests :
    (k1[1] = k2[1] /\ k1[4] = k2[4]) => (k1 = k2 /\ requests[k1] <= 1)

\* C2 amended: per store key (stream, tag, target, frame number), at most
\* one decode request is issued in a session, also by a tick that runs while
\* the decodes of an earlier tick are pending and after a target switch.
C2_OncePerKey ==
  \A k \in DOMAIN requests : requests[k] <= 1

\* a tick issued requests while a batch of an earlier tick was still pending
C2_Witness ==
  /\ Ticked /\ ~lastTick.first
  /\ lastTick.promises # {}
  /\ \E b \in pending : b.reqs # {} /\ b.reqs \cap lastTick.promises = {}

\* C3: right after a scheduler tick, for the target each stream had at the
\* tick, mark - playhead frame of the tick <= bufferDuration * frameRate,
\* provided the presentation clock has not moved backwards.
C3_LeakyBucketBound ==
  (Ticked /\ ~clockBack) =>
    /\ GeometryMark(lastTick.gTarget) - lastTick.currentGFrame
         <= bufferDuration
            * GeometryTargetData(trackData.manifest, lastTick.gTarget).frameRate
    /\ \A ty \in DOMAIN lastTick.tTarget :
         TextureMark(ty, lastTick.tTarget[ty]) - lastTick.currentTFrame[ty]
           <= bufferDuration
              * TextureTargetData(trackData.manifest, ty, lastTick.tTarget[ty]).frameRate

\* a timer tick fired while playback was still paused, with the bucket full
C3_Witness ==
  /\ Ticked /\ ~lastTick.first
  /\ Paused(trackData, timeData, audio)
  /\ lastTick.promises = {}
  /\ GeometryMark(lastTick.gTarget) - lastTick.currentGFrame
       = bufferDuration
         * GeometryTargetData(trackData.manifest, lastTick.gTarget).frameRate

FirstPass == Ticked /\ lastTick.first

\* C4 as stated: the first pass requests the geometry frames
\* 0 .. min(bufferDuration * frameRate, frameCount) - 1 and no other.
C4_FirstPassSeconds ==
  FirstPass =>
    TickFrames("geometry", lastTick.gTarget)
      = 0 .. (Min(bufferDuration
                  * GeometryTargetData(trackData.manifest, lastTick.gTarget).frameRate,
                  GeometryLastFrame(lastTick.gTarget) + 1) - 1)

\* C4 amended: the first pass requests the geometry frames
\* 0 .. min(bufferDuration * frameRate, frameCount - 1), i.e. one frame more
\* than bufferDuration seconds when the track is longer than that.
C4_FirstPassInclusive ==
  FirstPass =>
    TickFrames("geometry", lastTick.gTarget)
      = 0 .. Min(bufferDuration
                 * GeometryTargetData(trackData.manifest, lastTick.gTarget).frameRate,
                 GeometryLastFrame(lastTick.gTarget))

\* the first pass on a track longer than bufferDuration seconds
C4_Witness ==
  /\ FirstPass
  /\ timeData.currentTime = 0
  /\ GeometryLastFrame(lastTick.gTarget)
       > bufferDuration
         * GeometryTargetData(trackData.manifest, lastTick.gTarget).frameRate
  /\ GeometryKey(lastTick.gTarget, bufferDuration
         * GeometryTargetData(trackData.manifest, lastTick.gTarget).frameRate)
       \in lastTick.promises

Presented == lastFrame # NoRecord /\ lastFrame.outcome \in {"skipped", "shown"}

\* C5: the number of decoded frames a store holds for a target is bounded by
\* a constant of bufferDuration and the frame rate, whatever the length of
\* the track: at most the frames playhead - 1 .. playhead + bufferDuration *
\* frameRate, i.e. bufferDuration * frameRate + 2 frames per target.
C5_StoreBound ==
  Active =>
    /\ \A g \in GeometryTargets :
         Cardinality({e \in meshMap : e[1] = g})
           <= bufferDuration * GeometryTargetData(trackData.manifest, g).frameRate + 2
    /\ \A ty \in TextureTypes : \A tt \in TextureTargets(ty) :
         Cardinality({e \in textureMap : e[1] = ty /\ e[3] = tt})
           <= bufferDuration * TextureTargetData(trackData.manifest, ty, tt).frameRate + 2

\* C6: after a presentation tick at playhead frame f the store holds no entry
\* of the active geometry target (of the active baseColor target and tag)
\* with a frame number below f - 1.
C6_EvictsEverythingBelow ==
  Presented =>
    /\ \A e \in meshMap :
         e[1] = lastFrame.gTarget => e[2] >= lastFrame.gFrame - 1
    /\ \A e \in textureMap :
         (e[1] = "baseColor" /\ e[2] = lastFrame.tTag /\ e[3] = lastFrame.tTarget)
           => e[4] >= lastFrame.tFrame - 1

ProcessedFrame == lastFrame # NoRecord /\ lastFrame.outcome \in {"skipped", "shown", "ended"}

\* C7: in a presentation tick the eviction removes neither the geometry key
\* nor the texture key selected for presentation, nor the texture actually
\* displayed; it only removes keys below the playhead frame.
C7_EvictionSafety ==
  ProcessedFrame =>
    /\ GeometryKey(lastFrame.gTarget, lastFrame.gFrame) \notin lastFrame.evicted
    /\ TextureKey("baseColor", lastFrame.tTag, lastFrame.tTarget, lastFrame.tFrame)
         \notin lastFrame.evicted
    /\ lastFrame.texture \notin lastFrame.evicted
    /\ \A k \in lastFrame.evicted :
         k[4] < (IF k[1] = "geometry" THEN lastFrame.gFrame ELSE lastFrame.tFrame)

\* a tick displayed a frame with its own texture and evicted the previous
\* geometry and texture frames
C7_Witness ==
  /\ lastFrame # NoRecord /\ lastFrame.outcome = "shown"
  /\ lastFrame.texture
       = TextureKey("baseColor", lastFrame.tTag, lastFrame.tTarget, lastFrame.tFrame)
  /\ GeometryKey(lastFrame.gTarget, lastFrame.gFrame - 1) \in lastFrame.evicted
  /\ TextureKey("baseColor", lastFrame.tTag, lastFrame.tTarget, lastFrame.tFrame - 1)
       \in lastFrame.evicted

EndOfStreamStays ==
  (Active /\ session' = session) =>
    /\ \A g \in GeometryTargets :
         GeometryMark(g) = GeometryLastFrame(g)
           => /\ trackData'.lastRequestedGeometryFrame[g] = GeometryMark(g)
              /\ lastTick' # NoRecord =>
                   \A k \in lastTick'.promises : ~(k[1] = "geometry" /\ k[3] = g)
    /\ \A ty \in TextureTypes : \A tt \in TextureTargets(ty) :
         TextureMark(ty, tt) = TextureLastFrame(ty, tt)
           => /\ trackData'.lastRequestedTextureFrame[ty][tt] = TextureMark(ty, tt)
              /\ lastTick' # NoRecord =>
                   \A k \in lastTick'.promises : ~(k[1] = ty /\ k[3] = tt)

\* C8: once the mark of a stream's target equals frameCount - 1, no step
\* of the session issues a request for that stream and target, and the mark
\* stays at frameCount - 1.
C8_EndOfStream == [][EndOfStreamStays]_vars

Decided == lastDecision # NoRecord

AllLeq(w, p, q) == \A i \in DOMAIN w : q * w[i][1] <= p * w[i][2]
AllGt(w, p, q) == \A i \in DOMAIN w : q * w[i][1] > p * w[i][2]

Promoted(d) == IF d.before < d.last THEN d.before + 1 ELSE d.before
Demoted(d) == IF d.before > 0 THEN d.before - 1 ELSE 0

\* C9: a decision on a window of three samples all <= 0.3 moves the index of
\* the active baseColor target up by exactly 1 (or leaves it at the last
\* index); on three samples all > 0.6 it moves it down by exactly 1 (or
\* leaves it at 0).
C9_MonotoneStep ==
  (Decided /\ Len(lastDecision.window) = 3) =>
    /\ AllLeq(lastDecision.window, 3, 10) => lastDecision.after = Promoted(lastDecision)
    /\ AllGt(lastDecision.window, 6, 10) => lastDecision.after = Demoted(lastDecision)

\* with targets [low, high], three samples of 0.8 demote high -> low (high
\* having been reached by a promotion from low)
C9_Witness ==
  /\ Decided
  /\ trackData.textureTargets["baseColor"] = <<"low", "high">>
  /\ lastDecision.window = << <<4, 5>>, <<4, 5>>, <<4, 5>> >>
  /\ lastDecision.before = 1
  /\ lastDecision.after = 0
  /\ trackData.currentTextureTarget["baseColor"] = "low"

\* C10: for a window of mean m (m >= 0), m <= 0.3 promotes by one step if a
\* higher target exists, 0.3 < m <= 0.6 holds, m > 0.6 demotes by one step
\* if a lower target exists.
C10_Thresholds ==
  Decided =>
    LET w == lastDecision.window
    IN /\ MeanLeq(w, 3, 10) => lastDecision.after = Promoted(lastDecision)
       /\ (~MeanLeq(w, 3, 10) /\ MeanLeq(w, 6, 10))
            => lastDecision.after = lastDecision.before
       /\ ~MeanLeq(w, 6, 10) => lastDecision.after = Demoted(lastDecision)

\* a window of mean exactly 0.3 promoted a target that has both a lower and
\* a higher neighbour
C10_Witness ==
  /\ Decided
  /\ MeanLeq(lastDecision.window, 3, 10) /\ MeanGeq(lastDecision.window, 3, 10)
  /\ lastDecision.before = 1
  /\ lastDecision.last = 2
  /\ lastDecision.after = 2

----------------------------------------------------------------------------
(* Quality window (C11) *)

Controlled == Active /\ player = "ABR"

WindowShort == Controlled => Len(trackData.stats) < 3

\* one step of a session, seen from the window and the active target
WindowStep ==
  (Controlled /\ session' = session) =>
    LET st == trackData.stats
        cur == trackData.currentTextureTarget["baseColor"]
        st2 == trackData'.stats
        cur2 == trackData'.currentTextureTarget["baseColor"]
    IN /\ cur2 # cur => (Len(st) = 2 /\ st2 = << >>)
       /\ (Len(st) = 2 /\ st2 # st) => st2 = << >>
       /\ Len(st) < 2 => (cur2 = cur /\ Len(st2) <= Len(st) + 1)

\* C11: the active target changes only in a step that completes a window of
\* 3 samples; every such step empties the window, whatever it decided, so
\* the window holds fewer than 3 samples after every step (and each move of
\* the target consumes 3 samples).
C11_WindowOfThree == []WindowShort /\ [][WindowStep]_vars

\* a decision to hold, on a window of mean in (0.3, 0.6], emptied the window
C11_Witness ==
  /\ Decided
  /\ Len(lastDecision.window) = 3
  /\ ~MeanLeq(lastDecision.window, 3, 10) /\ MeanLeq(lastDecision.window, 6, 10)
  /\ lastDecision.after = lastDecision.before
  /\ trackData.stats = << >>

----------------------------------------------------------------------------
(* The wall clock under pause() and play() (C12 .. C14) *)

\* processFrame computed a presentation time from the wall clock in the last step
ClockRead ==
  /\ Started
  /\ lastFrame # NoRecord
  /\ lastFrame.outcome \in {"skipped", "shown", "ended"}

\* C12: on the wall clock, when the calls after the start are properly
\* alternating pause() and play(), the presentation time processFrame computes
\* at a tick is the real time since the start minus the real time spent paused.
C12_WallClockTime ==
  (ClockRead /\ user.proper) =>
    lastFrame.time = (now - timeData.startTime) - user.pausedMs

\* a tick after a pause of 1 s that was resumed reads 1.5 s, 2.5 s after the start
C12_Witness ==
  /\ ClockRead /\ user.proper
  /\ calls >= 2 /\ ~user.paused
  /\ user.pausedMs = 1000
  /\ now - timeData.startTime = 2500
  /\ lastFrame.time = 1500

\* C13: on the wall clock, whatever pause() and play() calls are made after the
\* start (pause() while paused and play() while playing included), the
\* presentation time processFrame computes never decreases, and right after a
\* play() that resumes, it is the presentation time of the moment the user paused.
C13_FrozenWhilePaused ==
  user.afterStart =>
    /\ ~clockBack
    /\ user.resumed => WallClockMs(timeData, now) = user.frozenAt

\* C14: the presentation time and the playhead frame numbers computed from it
\* are never negative, whatever the order of playTrack, play(), pause(),
\* startVideo and processFrame (play() before the first pass has completed
\* included).
C14_TimeNeverNegative ==
  Active =>
    /\ timeData.currentTime >= 0
    /\ (lastFrame # NoRecord /\ lastFrame.outcome \in {"skipped", "shown", "ended"}) =>
         (lastFrame.gFrame >= 0 /\ lastFrame.tFrame >= 0)

----------------------------------------------------------------------------
(* Start of playback (C15) *)

\* a decode request of the scheduling pass of playTrack has not completed yet
FirstPassPending == \E b \in pending : b.cb /\ b.session = session

StartedAfterFirstPass ==
  Active =>
    /\ starts <= 1
    /\ starts = 1 => ~FirstPassPending
    /\ (~trackData.hasAudio /\ timeData.startTime # -1) => starts = 1

LaterTickStartsNothing ==
  (lastTick' # NoRecord /\ ~lastTick'.first) => starts' = starts

\* C15: after playTrack, startVideo runs only when every decode request of the
\* first scheduling pass of that playTrack has completed, at most once for that
\* playTrack, and never in a scheduler tick of the timer.
C15_StartOnce == []StartedAfterFirstPass /\ [][LaterTickStartsNothing]_vars

----------------------------------------------------------------------------
(* Fallback texture (C16) *)

\* processFrame of part_001 displayed the playhead geometry in the last step
\* while the texture of the active (tag, target, frame) was not in the store
ShownWithoutActiveTexture ==
  /\ Active /\ player = "ABR"
  /\ lastFrame # NoRecord /\ lastFrame.outcome = "shown"
  /\ <<"baseColor", lastFrame.tTag, lastFrame.tTarget, lastFrame.tFrame>> \notin textureMap

\* entries of the store under tag "default", of any baseColor target, at that
\* target's own frame number for the current presentation time
DefaultEntries ==
  {k \in textureMap :
     /\ k[1] = "baseColor" /\ k[2] = "default"
     /\ k[3] \in Range(trackData.textureTargets["baseColor"])
     /\ k[4] = calculateTextureFrame(trackData.manifest, "baseColor", k[3],
                                     timeData.currentTime)}

----------------------------------------------------------------------------
(* End of track (C17) *)

\* processFrame detected the end of the track in the last step, and onTrackEnd
\* has just been called
EndedNow == Active /\ lastFrame # NoRecord /\ lastFrame.outcome = "ended"

TornDownAtTrackEnd ==
  EndedNow =>
    /\ ends >= 1
    /\ \A tmr \in timers : tmr.id # trackData.intervalId
    /\ meshMap = {}
    /\ textureMap = {}

NoTickAfterTrackEnd ==
  (Active /\ ends >= 1 /\ session' = session) =>
    /\ lastTick' = NoRecord
    /\ \A tmr \in timers' : tmr.id # trackData.intervalId

\* C17: when processFrame detects the end of the track (the audio has ended, or
\* the geometry playhead frame is >= frameCount - 1), the scheduler timer is
\* cancelled and both stores are empty when onTrackEnd is called, and no
\* scheduler tick of the session runs afterwards.
C17_EndOfTrack == []TornDownAtTrackEnd /\ [][NoTickAfterTrackEnd]_vars

\* the end of the audio has ended the track and time has passed since
C17_Witness ==
  /\ Active /\ trackData.hasAudio /\ audio.ended
  /\ ends >= 1 /\ timers = {}
  /\ now >= T0 + 2500
  /\ lastFrame = NoRecord

----------------------------------------------------------------------------
(* Decode failure (C18) *)

KeyInStores(k, mesh, tex) ==
  IF k[1] = "geometry" THEN <<k[3], k[4]>> \in mesh ELSE k \in tex

\* a failed request never inserts, and its failure is handled by the player:
\* no batch is left rejected with nobody to handle it
FailureStaysAbsent ==
  /\ \A k \in FailedKeys : ~KeyInStores(k, meshMap, textureMap)
  /\ \A b \in pending : b.failed = {}

\* after a failure in its batch a sibling request that completes still inserts
\* its frame, and the failure leaves the scheduler timer alone
SiblingsAndTicksGoOn ==
  /\ \A b \in pending : \A b2 \in pending' :
       (b2.start = b.start /\ b2.session = b.session /\ b.failed # {}
          /\ b2.failed = b.failed) =>
         \A k \in b.reqs \ b2.reqs : KeyInStores(k, meshMap', textureMap')
  /\ FailedKeys' # FailedKeys => timers' = timers

\* C18: when a decode request of a scheduler tick fails, its key never appears
\* in the store, the sibling requests of the tick that succeed still insert their
\* frames, no error escapes (the failure is caught), and the later scheduler
\* ticks keep running.
C18_DecodeFailure == []FailureStaysAbsent /\ [][SiblingsAndTicksGoOn]_vars

----------------------------------------------------------------------------
(* Unsupported texture formats (C19) *)

\* the texture types of the manifest with no target in a supported format
UnsupportedTypes ==
  {ty \in Range(trackData.textureTypes) : trackData.textureTargets[ty] = << >>}

NoRequestForUnsupported ==
  Active => \A k \in BagToSet(requests) : k[1] \notin UnsupportedTypes

\* playTrack returns normally: its first scheduling pass has issued the requests
\* of the geometry stream and of the supported texture types, and the timer of
\* the scheduler is set
PlayTrackSchedules ==
  session' # session =>
    /\ lastTick' # NoRecord
    /\ \E tmr \in timers' : tmr.id = trackData'.intervalId
    /\ \E k \in lastTick'.promises : k[1] = "geometry"
    /\ \A ty \in Range(trackData'.textureTypes) :
         trackData'.textureTargets[ty] # << >> =>
           \E k \in lastTick'.promises : k[1] = ty

\* C19: when no target of a texture type has a supported format, playTrack
\* leaves that type out of scheduling: no request is ever issued for it, and the
\* scheduling passes complete normally and issue the requests of the geometry
\* stream and of the other texture types.
C19_UnsupportedTypeExcluded ==
  []NoRequestForUnsupported /\ [][PlayTrackSchedules]_vars

----------------------------------------------------------------------------
(* Audio in a format that cannot be played (C20) *)

\* the track of the session declares audio, but in no playable format
UnplayableAudio ==
  /\ Active
  /\ Manifests[trackData.manifest].audio.present
  /\ ~Manifests[trackData.manifest].audio.playable

\* playTrack returned normally (the scheduler timer is set), the session is on
\* the wall clock, and paused and the presentation time come from the wall clock
WallClockFallback ==
  UnplayableAudio =>
    /\ trackData.intervalId # -1
    /\ ~trackData.hasAudio
    /\ Paused(trackData, timeData, audio) = timeData.isClockPaused
    /\ (lastFrame # NoRecord /\ lastFrame.outcome \in {"skipped", "shown", "ended"}) =>
         lastFrame.time = WallClockMs(timeData, now)

\* playTrack, startVideo, play() and pause() leave the audio element alone
AudioUntouched == UnplayableAudio' => audio' = audio

\* C20: when the manifest declares audio and none of its formats is playable,
\* playTrack completes without raising, the session has hasAudio false and runs
\* on the wall clock, and paused, play(), pause(), startVideo and the
\* presentation time never use the audio element.
C20_UnplayableAudio == []WallClockFallback /\ [][AudioUntouched]_vars

\* a frame is shown at a wall-clock time after a play() or pause() call, with
\* the audio element still paused at 0
C20_Witness ==
  /\ UnplayableAudio
  /\ lastFrame # NoRecord /\ lastFrame.outcome = "shown" /\ lastFrame.time >= 1000
  /\ calls >= 1
  /\ audio.paused /\ audio.currentTime = 0

----------------------------------------------------------------------------
(* Buffering progress (C21) *)

\* processFrame found the player paused in the last step and called the
\* buffering callback
BufferingNow == Active /\ lastFrame # NoRecord /\ lastFrame.outcome = "buffering"

\* C21: a presentation tick that finds the player paused calls the buffering
\* callback with bufferedFrames / (frameRate * bufferDuration), bufferedFrames
\* being the number of geometry frames in the store.
C21_BufferingFraction ==
  BufferingNow =>
    lastFrame.progress[1]
        * (GeometryTargetData(trackData.manifest, trackData.currentGeometryTarget).frameRate
             * bufferDuration)
      = Cardinality(meshMap) * lastFrame.progress[2]

----------------------------------------------------------------------------
(* Requests lead the playhead (C22) *)

\* the playhead frame the last tick computed for the stream of request k
TickPlayhead(k) ==
  IF k[1] = "geometry" THEN lastTick.currentGFrame ELSE lastTick.currentTFrame[k[1]]

\* C22: every request a scheduler tick issues is for a frame at or ahead of the
\* playhead frame that tick computed for the stream's active target, also on
\* the first tick after the quality controller switched the target.
C22_RequestsLeadPlayhead ==
  Ticked => \A k \in lastTick.promises : k[4] >= TickPlayhead(k)

----------------------------------------------------------------------------
(* The sample of a batch (C23) *)

\* the last decode of batch b resolves in this step and its handler runs
Completes(b) ==
  /\ player = "ABR"
  /\ b \in pending /\ b.session = session
  /\ Cardinality(b.reqs) = 1 /\ b.failed = {}
  /\ \A c \in pending' : c.start # b.start \/ c.session # b.session \/ c.oldLast # b.oldLast
  /\ now' = now /\ session' = session

\* the handler pushed a sample in this step
SamplePushed ==
  \/ Len(trackData'.stats) = Len(trackData.stats) + 1
  \/ Len(trackData.stats) = 2 /\ trackData'.stats = << >>

\* the sample the handler pushed in this step
PushedSample ==
  IF Len(trackData.stats) = 2 THEN lastDecision'.window[3]
  ELSE trackData'.stats[Len(trackData'.stats)]

\* the sample of batch b: its fetch time over the play time of the frames
\* it requested itself
OwnSample(b) == Rat((now - b.start) * b.fps, 1000 * b.own)

SampleOfOwnBatch ==
  \A b \in pending :
    Completes(b) =>
      IF b.own > 0 THEN SamplePushed /\ PushedSample = OwnSample(b)
      ELSE ~SamplePushed

\* C23: the sample a scheduler tick contributes is the wall time until all of
\* its own requests completed over the play time of the geometry frames that
\* tick requested, also when a later tick advanced the geometry mark in
\* between; a tick that requested no geometry frame contributes no sample.
C23_SampleOfOwnBatch == [][SampleOfOwnBatch]_vars

----------------------------------------------------------------------------
(* Start of playback after a failed first-pass decode (C24) *)

\* every request of the first scheduling pass of this session has settled,
\* one of them by failing
FirstPassSettledWithFailure ==
  \E b \in pending : b.cb /\ b.session = session /\ b.reqs = {} /\ b.failed # {}

\* C24: when a decode of the first scheduling pass fails and all the others
\* settle, the start-of-playback callback has run: playback starts with that
\* frame absent.
C24_StartAfterFailure == FirstPassSettledWithFailure => starts >= 1

----------------------------------------------------------------------------
(* Replacement of a session (C25) *)

\* a timer or a batch that an earlier playTrack created
OfEarlierSession(id) == id < session

\* no timer of an earlier session fires in this step
EarlierTimerSilent ==
  \A tmr \in timers :
    (OfEarlierSession(tmr.id) /\ session' = session) => tmr \in timers'

\* a decode of an earlier session that completes in this step inserts nothing
\* and leaves the track data of the new session as it was
EarlierDecodeInert ==
  \A b \in pending :
    (OfEarlierSession(b.session) /\ session' = session /\ b \notin pending') =>
      /\ meshMap' = meshMap
      /\ textureMap' = textureMap
      /\ trackData' = trackData

\* C25: when playTrack replaces an active session, the timer of the earlier
\* session no longer fires and no decode the earlier session issued inserts a
\* frame or changes the bounding box, the marks or the statistics of the new
\* session.
C25_EarlierSessionReplaced == [][EarlierTimerSilent /\ EarlierDecodeInert]_vars

----------------------------------------------------------------------------
(* Ownership of the scheduler timer (C26) *)

\* C26: at most one periodic scheduler timer is live, and a live timer is the
\* one of the current session, which has neither ended nor been replaced.
C26_OneLiveTimer ==
  /\ Cardinality(timers) <= 1
  /\ \A tmr \in timers : Active /\ tmr.id = session /\ tmr.id = trackData.intervalId

----------------------------------------------------------------------------
(* Missing geometry at a presentation tick (C27) *)

\* the geometry frame of the playhead that tick computed is not in the store
PlayheadGeometryMissing == <<lastFrame.gTarget, lastFrame.gFrame>> \notin meshMap

\* that tick neither updated the geometry nor assigned a material nor called
\* onFrameShow
HeldLastDisplay == lastFrame.outcome = "skipped" /\ lastFrame.texture = NoKey

MissingGeometryHolds == (Presented /\ PlayheadGeometryMissing) => HeldLastDisplay

\* a tick that held the display returned at once: no request was issued or
\* awaited, and the timers and the clock state were left alone
SkipReturnsAtOnce ==
  (lastFrame' # NoRecord /\ lastFrame'.outcome = "skipped") =>
    /\ pending' = pending /\ requests' = requests /\ timers' = timers
    /\ now' = now /\ trackData' = trackData
    /\ timeData' = [timeData EXCEPT !.currentTime = lastFrame'.time]

\* C27: at a presentation tick where the geometry frame of the playhead is not
\* in the store and the track has not ended, the displayed geometry and
\* material stay as they were, onFrameShow is not called, and the tick does
\* not wait for the decode.
C27_MissingGeometrySkips == []MissingGeometryHolds /\ [][SkipReturnsAtOnce]_vars

\* a tick held the display while other geometry frames were in the store
C27_Witness ==
  /\ Presented /\ PlayheadGeometryMissing /\ lastFrame.outcome = "skipped"
  /\ \E x \in meshMap : x[1] = lastFrame.gTarget
  /\ pending # {}

----------------------------------------------------------------------------
(* What a quality decision touches (C28) *)

\* adjustTextureTarget took a decision in this step
DecisionStep ==
  /\ lastDecision' # NoRecord
  /\ trackData # NoTrack /\ trackData' # NoTrack /\ session' = session

DecisionMovesBaseColorOnly ==
  DecisionStep =>
    /\ meshMap \subseteq meshMap' /\ textureMap \subseteq textureMap'
    /\ trackData'.lastRequestedGeometryFrame = trackData.lastRequestedGeometryFrame
    /\ trackData'.lastRequestedTextureFrame = trackData.lastRequestedTextureFrame
    /\ trackData'.currentGeometryTarget = trackData.currentGeometryTarget
    /\ trackData'.currentTextureTag = trackData.currentTextureTag
    /\ trackData'.textureTargets = trackData.textureTargets
    /\ \A ty \in DOMAIN trackData.currentTextureTarget \ {"baseColor"} :
         trackData'.currentTextureTarget[ty] = trackData.currentTextureTarget[ty]

\* C28: a quality decision changes only the active baseColor target and the
\* statistics window: no store entry is removed, no high-water mark moves, and
\* the geometry target, the tags and the targets of the other texture types
\* stay as they were.
C28_DecisionMovesBaseColorOnly == [][DecisionMovesBaseColorOnly]_vars

\* a decision has just switched the baseColor target while frames were in the
\* stores and the marks had advanced
C28_Witness ==
  /\ Active /\ lastDecision # NoRecord
  /\ lastDecision.before # lastDecision.after
  /\ meshMap # {} /\ textureMap # {}
  /\ \E tt \in DOMAIN trackData.lastRequestedTextureFrame["baseColor"] :
       trackData.lastRequestedTextureFrame["baseColor"][tt] >= 0

----------------------------------------------------------------------------
(* Idempotence of the scheduler tick (C29) *)

\* this.TextureFrameCount(textureType) of the class in use
FrameCountInUse(td) ==
  [ty \in Range(td.textureTypes) |->
     IF player = "ABR" THEN TextureFrameCount(td, ty) ELSE TextureFrameCountV2(td, ty)]

\* a tick has just run on a track it can schedule
TickedOnTrack == Ticked /\ Active /\ ~FetchThrows(trackData)

\* what fetchBuffers would do if it ran once more now, at the same
\* presentation time and with the same active targets
SecondTick == FetchBuffersSync(trackData, timeData, bufferDuration, FrameCountInUse(trackData))

SecondTickIsNoOp ==
  TickedOnTrack => (SecondTick.promises = {} /\ SecondTick.track = trackData)

\* the horizon of the last iteration of the tick, the highest of the tick
GeometryHorizon ==
  RequestEnd(bufferDuration - 1, lastTick.currentGFrame,
             GeometryTargetData(trackData.manifest, lastTick.gTarget).frameRate,
             GeometryFrameCount(trackData))

TextureHorizon(ty) ==
  RequestEnd(bufferDuration - 1, lastTick.currentTFrame[ty],
             TextureTargetData(trackData.manifest, ty, lastTick.tTarget[ty]).frameRate,
             FrameCountInUse(trackData)[ty])

\* a stream whose horizon was not above its mark got no request and kept
\* its mark
HorizonNotAboveMarkIsNoOp ==
  TickedOnTrack =>
    /\ GeometryHorizon <= lastTick.beforeG[lastTick.gTarget] =>
         /\ TickFrames("geometry", lastTick.gTarget) = {}
         /\ trackData.lastRequestedGeometryFrame = lastTick.beforeG
    /\ \A ty \in DOMAIN lastTick.tTarget :
         TextureHorizon(ty) <= lastTick.beforeT[ty][lastTick.tTarget[ty]] =>
           /\ TickFrames(ty, lastTick.tTarget[ty]) = {}
           /\ trackData.lastRequestedTextureFrame[ty] = lastTick.beforeT[ty]

\* C29: a scheduler tick is idempotent at a fixed playhead: a second tick at
\* the same presentation time with the same active targets issues no request
\* and changes no mark; an iteration whose horizon is not above the mark issues
\* nothing and mutates nothing.
C29_TickIdempotent == SecondTickIsNoOp /\ HorizonNotAboveMarkIsNoOp

\* a timer tick found every horizon at or below its mark, on a track that is
\* not yet requested to its end, right after a tick that had issued requests
C29_Witness ==
  /\ TickedOnTrack /\ ~lastTick.first
  /\ lastTick.promises = {}
  /\ requests # EmptyBag
  /\ lastTick.beforeG[lastTick.gTarget] >= 0
  /\ lastTick.beforeG[lastTick.gTarget] < GeometryFrameCount(trackData) - 1

----------------------------------------------------------------------------
(* Track-end notification (C30) *)

\* C30: onTrackEnd is called at most once per track session, however many
\* presentation ticks follow the end of the track, on the wall clock and on
\* the audio clock.
C30_TrackEndOnce == ends <= 1

----------------------------------------------------------------------------
(* Stores after teardown (C31) *)

\* the track of the current session has ended and no playTrack followed
TornDown == Active /\ ends >= 1

\* C31: after the end-of-track teardown both stores stay empty until the next
\* playTrack; a decode still in flight at teardown inserts nothing.
C31_StoresStayEmpty == TornDown => (meshMap = {} /\ textureMap = {})

----------------------------------------------------------------------------
(* The displayed geometry and eviction (C32) *)

\* C32: the geometry attached to the mesh is never released by eviction while
\* it is the displayed one, also at a tick that holds frame f because frame
\* f + 1 is not decoded yet.
C32_DisplayedNotEvicted == displayed.releasedBy # "eviction"

----------------------------------------------------------------------------
(* Eviction of every scheduled texture type (C33) *)

\* the store entries of texture type ty, of its active tag and target, that
\* lie more than one frame behind the playhead of the last presentation tick
StaleTextures(ty) ==
  {k \in textureMap :
     /\ k[1] = ty
     /\ k[2] = trackData.currentTextureTag[ty]
     /\ k[3] = trackData.currentTextureTarget[ty]
     /\ k[4] < currentTextureFrame(trackData, timeData, ty) - 1}

\* C33: after a presentation tick at playhead frame f, for every scheduled
\* texture type the store holds no entry of the type's active target and tag
\* with a frame number below f - 1.
C33_EveryTypeEvicted ==
  (Active /\ Presented) => \A ty \in Range(trackData.textureTypes) : StaleTextures(ty) = {}

----------------------------------------------------------------------------
(* The playhead and the geometry mark under regular ticks (C34) *)

\* processFrame has run at the present instant: update() is called at least
\* once per clock step, which is at most one frame period
PresentedThisInstant ==
  IF ~Active \/ Paused(trackData, timeData, audio) THEN TRUE
  ELSE timeData.currentTime = WallClockMs(timeData, now)

AdvanceTimeSteady == PresentedThisInstant /\ AdvanceTimeWithin(MaxStepsSteady)

NextSteady ==
  \/ trackData = NoTrack /\ player = "ABR"
       /\ \E B \in {1, 2}, I \in {1, 2} : B >= I /\ PlayTrack("L", B, I)
  \/ \E tmr \in timers : TimerTick(tmr)
  \/ \E b \in pending : \E k \in b.reqs : DecodeDone(b, k)
  \/ ProcessFrame
  \/ AdvanceTimeSteady

\* one wall-clock session with bufferDuration >= intervalDuration, the timer
\* firing exactly every intervalDuration seconds and a presentation tick at
\* every clock step
SpecSteady == Init /\ [][NextSteady]_vars

\* C34: in wall-clock mode with bufferDuration >= intervalDuration, regular
\* scheduler ticks and a presentation tick at least once per frame period,
\* at every presentation tick before the end of the track the geometry
\* playhead frame is at most the geometry high-water mark.
C34_PlayheadWithinMark ==
  (Active /\ Presented) =>
    lastFrame.gFrame <= trackData.lastRequestedGeometryFrame[lastFrame.gTarget]

----------------------------------------------------------------------------
(* The last frame and the end of the track (C35) *)

\* the key of the last geometry frame of the active target
FinalGeometryKey == <<trackData.currentGeometryTarget, GeometryFrameCount(trackData) - 1>>

\* this step is the presentation tick at which the playhead reached the last
\* frame and the track-end notification fired, with that frame in the store
EndsWithFinalFrameDecoded ==
  /\ Active /\ ends = 0 /\ ends' = 1
  /\ lastFrame'.gFrame = GeometryFrameCount(trackData) - 1
  /\ FinalGeometryKey \in meshMap

\* the last frame was displayed by then
FinalFrameShownByEnd ==
  EndsWithFinalFrameDecoded => displayed'.geometry = FinalGeometryKey

\* C35: when the geometry frame frameCount - 1 is in the store as the playhead
\* reaches it, that frame is displayed before the track-end notification
\* fires.
C35_FinalFrameShown == [][FinalFrameShownByEnd]_vars

----------------------------------------------------------------------------
(* The track ends (C36) *)

\* playback is under way on the wall clock
Playing == Started /\ ends = 0

\* the play time of the track (ms)
TrackMs ==
  (1000 * GeometryFrameCount(trackData))
    \div GeometryTargetData(trackData.manifest, trackData.currentGeometryTarget).frameRate

\* time passes: without bound while the track plays, for at most MaxPauseLive
\* while the user holds it paused, and for MaxStepsLive steps otherwise
TimeMayPass ==
  IF ~Playing THEN now < T0 + MaxStepsLive * StepMs
  ELSE IF timeData.isClockPaused THEN now - timeData.pausedTime < MaxPauseLive
  ELSE now - timeData.startTime - timeData.totalPausedDuration < TrackMs

AdvanceTimeLive == TimeMayPass /\ AdvanceTimeWithin((now - T0) \div StepMs + 1)

\* the user pauses a playing track, and resumes it
PauseLive == Playing /\ ~timeData.isClockPaused /\ calls + 1 < MaxCalls /\ Pause

PlayLive == Playing /\ timeData.isClockPaused /\ calls < MaxCalls /\ Play

TimerTickLive == \E tmr \in timers : TimerTick(tmr)

NextLive ==
  \/ trackData = NoTrack /\ player = "ABR" /\ PlayTrack("E", 1, 1)
  \/ TimerTickLive
  \/ \E b \in pending : b.cb /\ DecodeDone(b, NextToComplete(b))
  \/ ProcessFrame
  \/ PauseLive
  \/ PlayLive
  \/ AdvanceTimeLive

\* one wall-clock session in which time keeps passing, update() keeps being
\* called, the timer keeps firing while it is live and a paused player is
\* resumed; the decodes of the first pass may complete, those requested by
\* later ticks never do
\* a timer is due: fetchBuffers can run
TimerDue == \E tmr \in timers : tmr.due <= now

\* weak fairness of the timer callback, with its enabling condition written
\* out: a timer that stays due fires
TimerFires == []<>(~TimerDue) \/ []<><<TimerTickLive>>_vars

SpecLive ==
  /\ Init /\ [][NextLive]_vars
  /\ WF_vars(AdvanceTimeLive)
  /\ WF_vars(ProcessFrame)
  /\ WF_vars(PlayLive)
  /\ TimerFires

\* C36: on the wall clock, once the first pass has completed and playback has
\* started, the track-end notification eventually fires and the scheduler
\* timer is eventually cancelled, also when decodes of later ticks never
\* complete.
C36_TrackEventuallyEnds == Playing ~> (ends >= 1 /\ timers = {})

\* the track has ended with its timer cancelled while requests of later ticks
\* were still not decoded, after the user had paused and resumed it
C36_Witness ==
  /\ Active /\ ~trackData.hasAudio /\ ends = 1 /\ timers = {}
  /\ \E b \in pending : ~b.cb /\ b.reqs # {}
  /\ calls >= 2

----------------------------------------------------------------------------
(* The horizon of each texture type in V2/player.ts (C39) *)

\* the texture requests of the last tick
TextureRequests == {k \in lastTick.promises : k[1] # "geometry"}

\* C39: in V2/player.ts every texture request is for a frame number below the
\* frame count of the requested type's own active target.
C39_HorizonOfOwnTarget ==
  (player = "V2" /\ Ticked /\ Active) =>
    \A k \in TextureRequests : k[4] < _TextureFrameCount(trackData.manifest, k[1], k[3])


----------------------------------------------------------------------------
(* The segment-based player (unnamed/part_000): geometry frames and texture *)
(* segments of the first target of a V2FileHeader, stores keyed by number  *)

\* the value of a field that was never assigned (startTime before the
\* first startVideo) and the number NaN that arithmetic on it yields; both
\* are kept apart from every time and frame number, which are >= 0
Undefined == -1
NaN == -1

\* header.output of the headers played, first target of each stream; none
\* has an audio output, so the player runs on the wall clock
Headers ==
  [P |-> [geometry |-> [frameRate |-> 4, frameCount |-> 8],
          texture |-> [frameRate |-> 4, sequenceSize |-> 2, sequenceCount |-> 4],
          audio |-> FALSE],
   Q |-> [geometry |-> [frameRate |-> 1, frameCount |-> 4],
          texture |-> [frameRate |-> 2, sequenceSize |-> 1, sequenceCount |-> 6],
          audio |-> FALSE]]

HeaderIds == {"P", "Q"}

\* getCurrentFrame(targetData, currentTime): Math.round(frameRate * currentTime),
\* currentTime = ms / 1000; NaN stays NaN
getCurrentFrame(targetData, ms) ==
  IF ms = NaN THEN NaN ELSE Round(targetData.frameRate * ms, 1000)

\* get BatchSize / get GeometryFrameCount / get TextureSegmentCount
BatchSize(td) == Headers[td.header].texture.sequenceSize
SegGeometryFrameCount(td) == Headers[td.header].geometry.frameCount
TextureSegmentCount(td) == Headers[td.header].texture.sequenceCount

\* Math.floor(currentTextureFrame / this.BatchSize)
currentTextureSegment(td, ms) ==
  IF ms = NaN THEN NaN
  ELSE getCurrentFrame(Headers[td.header].texture, ms) \div BatchSize(td)

SegCurrentGeometryFrame(td, ms) == getCurrentFrame(Headers[td.header].geometry, ms)

\* number of frames for 1 second / number of segments for 1 second
geometryBufferSize(td) == Headers[td.header].geometry.frameRate
textureBufferSize(td) ==
  (Headers[td.header].texture.frameRate + BatchSize(td) - 1) \div BatchSize(td)

\* the guard of a stream's block in the loop of fetchBuffers; a comparison
\* with NaN is false
StreamWanted(B, last, cur, size, count) ==
  cur # NaN /\ last - cur < B * size /\ last # count - 1

\* Math.min(current + (i + 1) * size, count - 1)
currentRequestEnd(i, cur, size, count) == Min(cur + (i + 1) * size, count - 1)

\* "if (currentRequestEnd < currentRequestingFrame) continue"
NothingToRequest_OrOne(requestEnd, requesting) == requestEnd <= requesting
NothingToRequest(requestEnd, requesting) == requestEnd < requesting

\* the loop "for (let i = 0; i < this.bufferDuration; i++)" of fetchBuffers:
\* both marks after it, the decodes started, and whether the "continue" of
\* the geometry block was taken (it skips the texture block of the iteration)
RECURSIVE SegmentLoop(_, _, _, _, _, _, _)
SegmentLoop(i, B, td, curG, curS, lastG, lastS) ==
  IF ~(i < B) THEN [lastG |-> lastG, lastS |-> lastS, promises |-> {}, skipped |-> FALSE]
  ELSE
    LET gOpen == StreamWanted(B, lastG, curG, geometryBufferSize(td),
                              SegGeometryFrameCount(td))
        gEnd == currentRequestEnd(i, curG, geometryBufferSize(td),
                                  SegGeometryFrameCount(td))
        gSkip == gOpen /\ NothingToRequest(gEnd, lastG + 1)
        gFire == gOpen /\ ~gSkip
        sOpen == ~gSkip /\ StreamWanted(B, lastS, curS, textureBufferSize(td),
                                        TextureSegmentCount(td))
        sEnd == currentRequestEnd(i, curS, textureBufferSize(td),
                                  TextureSegmentCount(td))
        sFire == sOpen /\ ~NothingToRequest(sEnd, lastS + 1)
        rest == SegmentLoop(i + 1, B, td, curG, curS,
                            IF gFire THEN gEnd ELSE lastG,
                            IF sFire THEN sEnd ELSE lastS)
    IN [lastG |-> rest.lastG, lastS |-> rest.lastS,
        promises |-> (IF gFire THEN {<<"geometry", f>> : f \in (lastG + 1)..gEnd} ELSE {})
                     \cup (IF sFire THEN {<<"texture", n>> : n \in (lastS + 1)..sEnd}
                           ELSE {})
                     \cup rest.promises,
        skipped |-> gSkip \/ rest.skipped]

\* fetchBuffers with this.header, this.currentTime = ms and the marks of td
SegmentFetch(td, ms, B) ==
  SegmentLoop(0, B, td, SegCurrentGeometryFrame(td, ms), currentTextureSegment(td, ms),
              td.lastRequestedGeometryFrame, td.lastRequestedTextureSegment)

\* what a call of fetchBuffers did: the playhead it read, the marks before
\* and after, and whether a geometry iteration was skipped
SegmentTick(td, ms, B, f, first) ==
  [first |-> first, bufferDuration |-> B,
   currentGFrame |-> SegCurrentGeometryFrame(td, ms),
   currentSegment |-> currentTextureSegment(td, ms),
   beforeG |-> td.lastRequestedGeometryFrame, afterG |-> f.lastG,
   beforeS |-> td.lastRequestedTextureSegment, afterS |-> f.lastS,
   promises |-> f.promises, skipped |-> f.skipped]

\* the decodes a call started; cb: Promise.all(promises).then(callback)
SegmentBatch(f, cb, t, ses) ==
  [start |-> t, cb |-> cb, reqs |-> f.promises, session |-> ses]

\* the fields of a Player after construction: only currentTime has an
\* initializer; an undefined isClockPaused reads as false
NewSegmentTime ==
  [currentTime |-> 0, startTime |-> Undefined, pausedTime |-> Undefined,
   totalPausedDuration |-> Undefined, isClockPaused |-> FALSE]

InitSegment ==
  /\ player = "segment"
  /\ now = T0
  /\ trackData = NoTrack
  /\ timeData = NewSegmentTime
  /\ bufferDuration = 4
  /\ intervalDuration = 2
  /\ audio = [paused |-> TRUE, ended |-> FALSE, currentTime |-> 0]
  /\ meshMap = {}
  /\ textureMap = {}
  /\ timers = {}
  /\ pending = {}
  /\ calls = 0
  /\ session = 0
  /\ requests = EmptyBag
  /\ lastTick = NoRecord
  /\ lastFrame = NoRecord
  /\ lastDecision = NoRecord
  /\ clockBack = FALSE
  /\ user = NoUser
  /\ starts = 0
  /\ ends = 0
  /\ displayed = NoMesh

\* get paused(), no audio output: this.isClockPaused
SegmentPaused == timeData.isClockPaused

\* playTrack(_fileHeader, _bufferDuration, _intervalDuration): the marks and
\* the clock fields are reset, startTime is not; fetchBuffers(this.startVideo)
\* and a new interval timer, the earlier one is not cleared
PlayTrackSegment(h, B, I) ==
  /\ player = "segment"
  /\ session < MaxSessionsSegment
  /\ LET td == [header |-> h, hasAudio |-> Headers[h].audio, intervalId |-> session + 1,
                lastRequestedGeometryFrame |-> -1, lastRequestedTextureSegment |-> -1]
         f == SegmentFetch(td, 0, B)
     IN /\ trackData' = [td EXCEPT !.lastRequestedGeometryFrame = f.lastG,
                                   !.lastRequestedTextureSegment = f.lastS]
        /\ pending' = pending \cup {SegmentBatch(f, TRUE, now, session + 1)}
        /\ lastTick' = SegmentTick(td, 0, B, f, TRUE)
  /\ session' = session + 1
  /\ bufferDuration' = B
  /\ intervalDuration' = I
  /\ timeData' = [timeData EXCEPT !.totalPausedDuration = 0, !.isClockPaused = FALSE,
                                  !.pausedTime = 0, !.currentTime = 0]
  /\ timers' = timers \cup {[id |-> session + 1, due |-> now + I * 1000,
                             period |-> I * 1000]}
  /\ lastFrame' = NoRecord
  /\ starts' = 0
  /\ ends' = 0
  /\ UNCHANGED <<player, now, audio, meshMap, textureMap, calls, requests,
                 lastDecision, clockBack, user, displayed>>

\* the interval timer: this.fetchBuffers() without callback
TimerTickSegment(tmr) ==
  /\ player = "segment"
  /\ tmr \in timers
  /\ tmr.due <= now
  /\ timers' = (timers \ {tmr}) \cup {[tmr EXCEPT !.due = @ + tmr.period]}
  /\ LET f == SegmentFetch(trackData, timeData.currentTime, bufferDuration)
     IN /\ trackData' = [trackData EXCEPT !.lastRequestedGeometryFrame = f.lastG,
                                          !.lastRequestedTextureSegment = f.lastS]
        /\ pending' = IF f.promises = {} THEN pending
                      ELSE pending \cup {SegmentBatch(f, FALSE, now, session)}
        /\ lastTick' = SegmentTick(trackData, timeData.currentTime, bufferDuration,
                                   f, FALSE)
  /\ lastFrame' = NoRecord
  /\ UNCHANGED <<player, now, timeData, bufferDuration, intervalDuration, audio,
                 meshMap, textureMap, calls, session, requests, lastDecision,
                 clockBack, user, starts, ends, displayed>>

\* decodeDraco / decodeKTX2: the loader calls back, the frame or segment
\* enters its store under its number; the last one of the first pass
\* resolves Promise.all and startVideo runs
DecodeDoneSegment(b, k) ==
  /\ player = "segment"
  /\ b \in pending
  /\ k \in b.reqs
  /\ meshMap' = IF k[1] = "geometry" THEN meshMap \cup {k[2]} ELSE meshMap
  /\ textureMap' = IF k[1] = "texture" THEN textureMap \cup {k[2]} ELSE textureMap
  /\ pending' = (pending \ {b}) \cup
                (IF b.reqs = {k} THEN {} ELSE {[b EXCEPT !.reqs = @ \ {k}]})
  /\ timeData' = IF b.cb /\ b.reqs = {k}
                 THEN [timeData EXCEPT !.startTime = now, !.isClockPaused = FALSE]
                 ELSE timeData
  /\ starts' = IF b.cb /\ b.reqs = {k} THEN starts + 1 ELSE starts
  /\ lastTick' = NoRecord
  /\ lastFrame' = NoRecord
  /\ UNCHANGED <<player, now, trackData, bufferDuration, intervalDuration, audio,
                 timers, calls, session, requests, lastDecision, clockBack, user,
                 ends, displayed>>

\* (Date.now() - this.startTime - this.totalPausedDuration) in ms; an
\* undefined startTime makes it NaN
SegmentClock(tm, t) ==
  IF tm.startTime = Undefined THEN NaN ELSE t - tm.startTime - tm.totalPausedDuration

\* removePlayedBuffer: the keys below the bound; a comparison with NaN is false
PlayedBelow(store, bound, nan) == IF nan THEN {} ELSE {k \in store : k < bound}

\* dispose(): "for (i = 0; i < map.size; i++) map.get(i)?.dispose()"
DisposedByIndex(store) == {k \in store : k < Cardinality(store)}

Tagged(kind, keys) == {<<kind, k>> : k \in keys}

\* update(): processFrame(), then removePlayedBuffer(currentGeometryFrame - 5,
\* currentTextureSegment - 1) with the frame numbers of this.currentTime
UpdateSegment ==
  /\ player = "segment"
  /\ Active
  /\ LET ms == IF SegmentPaused THEN timeData.currentTime
               ELSE SegmentClock(timeData, now)
         gFrame == SegCurrentGeometryFrame(trackData, ms)
         sNo == currentTextureSegment(trackData, ms)
         ended == ~SegmentPaused /\ gFrame # NaN
                    /\ gFrame >= SegGeometryFrameCount(trackData)
         shown == ~SegmentPaused /\ ~ended /\ gFrame # NaN /\ gFrame \in meshMap
         mesh1 == IF ended THEN {} ELSE meshMap
         tex1 == IF ended THEN {} ELSE textureMap
         goneG == PlayedBelow(mesh1, gFrame - 5, ms = NaN)
         goneS == PlayedBelow(tex1, sNo - 1, ms = NaN)
     IN /\ timeData' = [timeData EXCEPT !.currentTime = ms]
        /\ timers' = IF ended THEN clearInterval(timers, trackData.intervalId)
                     ELSE timers
        /\ ends' = IF ended THEN Min(ends + 1, 2) ELSE ends
        /\ meshMap' = mesh1 \ goneG
        /\ textureMap' = tex1 \ goneS
        /\ displayed' =
             LET d1 == IF ended THEN Released(displayed, Tagged("geometry", meshMap),
                                              "teardown")
                       ELSE IF shown THEN [geometry |-> <<"geometry", gFrame>>, releasedBy |-> "none"]
                       ELSE displayed
             IN Released(d1, Tagged("geometry", goneG), "eviction")
        /\ lastFrame' =
             [outcome |-> IF SegmentPaused THEN "buffering"
                          ELSE IF ended THEN "ended"
                          ELSE IF shown THEN "shown" ELSE "skipped",
              before |-> timeData.currentTime, ms |-> ms,
              evicted |-> Tagged("geometry", goneG) \cup Tagged("texture", goneS),
              disposed |-> IF ended
                           THEN Tagged("geometry", DisposedByIndex(meshMap))
                                  \cup Tagged("texture", DisposedByIndex(textureMap))
                           ELSE {},
              cleared |-> IF ended
                          THEN Tagged("geometry", meshMap) \cup Tagged("texture", textureMap)
                          ELSE {}]
  /\ lastTick' = NoRecord
  /\ UNCHANGED <<player, now, trackData, bufferDuration, intervalDuration, audio,
                 pending, calls, session, requests, lastDecision, clockBack, user,
                 starts>>

\* the render loop calls update() at every instant of the clock
UpdatedThisInstant ==
  IF ~Active THEN TRUE
  ELSE IF SegmentPaused THEN lastFrame # NoRecord
  ELSE timeData.currentTime = SegmentClock(timeData, now)

AdvanceTimeSegment ==
  player = "segment" /\ UpdatedThisInstant /\ AdvanceTimeWithin(MaxStepsSegment)

\* the caller plays a track on a new player or after onTrackEnd
MayPlayTrack == trackData = NoTrack \/ ends >= 1

\* the loaders answer the calls of fetchBuffers in the order they were made
OldestBatch == CHOOSE b \in pending : \A c \in pending : b.start <= c.start

NextSegment ==
  \/ MayPlayTrack /\ \E h \in HeaderIds, B \in BufferDurations, I \in IntervalDurations :
                       PlayTrackSegment(h, B, I)
  \/ \E tmr \in timers : TimerTickSegment(tmr)
  \/ pending # {} /\ DecodeDoneSegment(OldestBatch, NextToComplete(OldestBatch))
  \/ UpdateSegment
  \/ AdvanceTimeSegment

\* the segment-based player playing by itself (no pause() / play() of the
\* user): tracks played one after the other, the decodes completing in one
\* fixed order at any time
SpecSegment == InitSegment /\ [][NextSegment]_vars


----------------------------------------------------------------------------
(* Between playTrack and the first startVideo of the track (C37) *)

\* the first-pass requests of the last playTrack have not all completed
SegmentFirstPassPending == \E b \in pending : b.cb /\ b.session = session

\* C37: on the wall clock, while the first-pass requests of the last
\* playTrack are outstanding the segment-based player reports paused, and a
\* presentation tick of that interval leaves the presentation time as it
\* was and does not signal the end of the track
C37_PausedUntilStarted ==
  (player = "segment" /\ Active /\ ~trackData.hasAudio /\ SegmentFirstPassPending) =>
    /\ SegmentPaused
    /\ lastFrame # NoRecord =>
         (lastFrame.ms = lastFrame.before /\ lastFrame.outcome # "ended")


----------------------------------------------------------------------------
(* The texture horizon of one scheduler call of the segment-based player (C38) *)

SegmentTicked == player = "segment" /\ lastTick # NoRecord

\* min(currentSegment + bufferDuration * segmentsPerSecond, segmentCount - 1)
\* for the playhead the call read
SegmentHorizon ==
  Min(lastTick.currentSegment + lastTick.bufferDuration * textureBufferSize(trackData),
      TextureSegmentCount(trackData) - 1)

\* C38: when a call of fetchBuffers starts with the texture mark below the
\* horizon of its playhead, it ends with the texture mark on that horizon,
\* whether or not geometry iterations were skipped
C38_TexturesNotStarved ==
  (SegmentTicked /\ lastTick.currentSegment # NaN /\ lastTick.beforeS < SegmentHorizon) =>
    lastTick.afterS = SegmentHorizon

\* a call that skipped a geometry iteration and still brought the texture
\* mark from below the horizon up to it
C38_Witness ==
  /\ SegmentTicked
  /\ lastTick.skipped
  /\ lastTick.currentSegment # NaN
  /\ lastTick.beforeS < SegmentHorizon
  /\ lastTick.afterS = SegmentHorizon


----------------------------------------------------------------------------
(* Release of the entries that leave the stores of the segment-based player (C40) *)

SegmentUpdated == player = "segment" /\ lastFrame # NoRecord

\* C40: every entry that a call of update() removed from a store was
\* released: the entries evicted are disposed before they are deleted, the
\* entries cleared at teardown were all disposed, and none was disposed twice
C40_RemovedIsReleased ==
  SegmentUpdated =>
    /\ lastFrame.cleared \subseteq lastFrame.disposed
    /\ lastFrame.disposed \cap lastFrame.evicted = {}

====
